---------------------------- MODULE Spec2Model ----------------------------
(***************************************************************************)
(* A model of the LiveTalking real-time pipeline:                          *)
(*   BaseASR   (src/baseasr.py)   the audio ingest queue and its policies  *)
(*   MuseASR   (src/museasr.py)   feature extraction and the feature queue *)
(*   inference (src/musereal.py)  the synthesis worker                     *)
(*   BaseReal  (src/basereal.py)  flush, custom states, the output loop    *)
(* Queues are sequences; the head of a queue is element 1.                 *)
(***************************************************************************)
EXTENDS Integers, Sequences, FiniteSets, TLC

\* ------------------------------------------------------------------ bounds
\* put_audio_frame calls made by the producer in the ingest specification.
MaxPush == 10
\* put_audio_frame calls made by the producer in the pipeline specification.
MaxPipePush == 1
\* Audio chunks after which the pacing loop starts no further run_step.
MaxChunks == 6
\* The same, for the pipeline whose frame selection is followed.
MaxFrameChunks == 5
\* The same when the control plane also acts.
MaxControlChunks == 3
\* The same when no thread consumes the feature queue.
MaxFeatChunks == 10
\* The same in the shutdown specifications.
MaxShutChunks == 4
\* The same with the virtual camera as transport.
MaxSinkChunks == 4
\* Exceptions raised inside run_step.
MaxAsrErrors == 2
\* flush_talk calls made by the control plane.
MaxFlush == 1
\* set_custom_state calls made by the control plane.
MaxCustom == 1
\* Largest logical index given to the mirror functions.
MaxIndex == 24
\* Largest asset cycle length given to the mirror functions.
MaxLen == 5
\* LiveProcessManager.start calls, and live processes started.
MaxStartCalls == 4
MaxStarts == 3
\* Jobs created, cancel_job calls, and the max_retries the jobs are created with.
MaxJobs == 2
MaxCancels == 2
JobMaxRetries == 1
\* Texts enqueued, segments of one text, playlist tasks built and tasks picked
\* by the speaker dispatcher.
MaxEnqueues == 1
MaxSegments == 2
MaxPlaylistTasks == 1
MaxDispatches == 2

\* --------------------------------------------------------- configurations
\* opt.fps values tried (src/app.py --fps).
FpsValues == {1, 2, 4, 16}
\* LT_AUDIO_QUEUE_SECONDS values tried, in tenths of a second.
QueueTenthsValues == {1, 5}
\* Audio types that opt.customopt defines a clip for.
CustomTypes == {2}
\* Audio types a caller may pass to set_custom_state (5 has no clip).
RequestedTypes == {2, 5}

sample_rate == 16000

VARIABLES
    \* BaseASR configuration (fixed after __init__)
    fps, audio_overflow_mode, max_audio_queue_chunks,
    \* BaseASR.queue and the producer thread inside put_audio_frame
    queue, putPc, pending, dropped_now, qsize_seen, put_outcome,
    dropped_audio_chunks,
    \* history of the ingest queue: put calls started, chunks returned by get
    pushed, delivered, last_got,
    \* BaseReal custom-state playback
    curr_state, custom_audio_index,
    \* calls made so far by the control plane
    custom_calls, flush_calls,
    \* mirror functions under test
    m_size, m_index, m_res, m_res_base,
    \* pipeline configuration (opt.batch_size, opt.l, opt.r, the feature queue,
    \* len(input_latent_list_cycle), whether a realtime audio bridge exists)
    batch_size, stride_left_size, stride_right_size, feat_queue_maxsize,
    feat_overflow_mode, length, use_realtime_audio,
    \* asr.output_queue (audio entries), asr.feat_queue, res_frame_queue
    output_queue, feat_queue, res_frame_queue,
    \* MuseASR.run_step in the pacing thread (evicted_batch: the batch the
    \* drop policy took off feat_queue last, history)
    rsPc, rs_i, frames_len, steps, next_seq, push_try, evict_j, dropped_feat, evicted_batch,
    dropped_feat_chunks,
    \* the synthesis worker (musereal.inference)
    infPc, whisper_chunks, audio_frames, is_all_silence, index, emit_i, recon,
    batches_done, failed_index, last_emit, prev_emit,
    \* BaseReal.process_frames: the speaking state, and the logical index of the
    \* result rendered last (history)
    pfPc, speaking, voice_age, last_render,
    \* MuseReal.render: quit_event, the two events it sets, its position, and
    \* whether process_frames has closed the sink
    quit_event, infer_quit_event, process_quit_event, renderPc, sink_closed,
    \* MuseReal._asr_err_count, and the argument of the last fallback
    \* time.sleep of the pacing loop in units of 1/fps milliseconds
    asr_err_count, fallback_sleep,
    \* the output side: the realtime audio bridge, the chunks (by number) the
    \* last emitting step handed to _emit_audio_frame, opt.transport, the
    \* virtual camera, the queue to the play_audio thread and that thread
    realtime_audio_queue, emitted, transport, vircam, audio_tmp, playPc,
    \* frame selection in process_frames: LT_ENABLE_TRANSITION, the two frame
    \* caches, the frame of the last iteration that made one (history), and
    \* BaseReal.custom_index (positions in the custom image cycles)
    enable_transition, last_speaking_frame, last_silent_frame, combine_frame,
    custom_index,
    \* control API, the LiveProcessManager: process, session_id and pid (0 is
    \* None; processes and sessions are numbered in start order), the
    \* processes alive, the processes started, each process's _monitor_exit
    \* thread (wait | exited | done) as monitor, the start_calls made and the
    \* start_result of the last one
    live_manager,
    \* control API, the JobRunner: the jobs table (status and retry_count by
    \* job id, "none" before the INSERT), RuntimeState.cancel_requested, _q,
    \* the jobs created; the worker thread's position workPc, its work_job,
    \* the work_row it read and the work_flag it read; the cancel_job call in
    \* progress (cancelPc, cancel_id) and the cancel_calls made; and the jobs a
    \* cancel_job UPDATE turned from queued to cancelled (cancelled_queued,
    \* history)
    job_runner,
    \* control API, the SpeakerDispatcher: _queue, _sequence, the
    \* prefetch_mode read from the environment, guard_active (now <
    \* _next_dispatch_ts), the loop's position pc and the task it picked, the
    \* texts enqueued, the playlist tasks built and the tasks picked so far
    \* (dispatches), and the last pick that returned a task with what
    \* _pick_next_task saw (last_pick, history)
    speaker_dispatcher

ingestVars == <<queue, putPc, pending, dropped_now, qsize_seen, put_outcome,
                dropped_audio_chunks, pushed, delivered, last_got>>
configVars == <<fps, audio_overflow_mode, max_audio_queue_chunks>>
customVars == <<curr_state, custom_audio_index>>
callVars == <<custom_calls, flush_calls>>
mirrorVars == <<m_size, m_index, m_res, m_res_base>>

pipeCfgVars == <<batch_size, stride_left_size, stride_right_size,
                 feat_queue_maxsize, feat_overflow_mode, length, use_realtime_audio>>
rsVars == <<rsPc, rs_i, frames_len, steps, next_seq, push_try, evict_j,
            dropped_feat, evicted_batch, dropped_feat_chunks>>
infVars == <<infPc, whisper_chunks, audio_frames, is_all_silence, index, emit_i,
             recon, batches_done, failed_index, last_emit, prev_emit>>
outVars == <<pfPc, speaking, voice_age, last_render>>
shutVars == <<quit_event, infer_quit_event, process_quit_event, renderPc, sink_closed>>
errVars == <<asr_err_count, fallback_sleep>>
sinkVars == <<realtime_audio_queue, emitted, transport, vircam, audio_tmp, playPc>>
pipeVars == <<pipeCfgVars, output_queue, feat_queue, res_frame_queue, rsVars,
              infVars, outVars>>

frameVars == <<enable_transition, last_speaking_frame, last_silent_frame,
               combine_frame, custom_index>>

ctlVars == <<live_manager, job_runner, speaker_dispatcher>>

\* The avatar process's own state.
avatarVars == <<configVars, ingestVars, customVars, callVars, mirrorVars, pipeVars,
                shutVars, errVars, sinkVars, frameVars>>

vars == <<avatarVars, ctlVars>>

\* ----------------------------------------------------------------- helpers
Max(a, b) == IF a >= b THEN a ELSE b
Min(a, b) == IF a <= b THEN a ELSE b

\* Python's round() of the rational n/d (d > 0, n >= 0): half to even.
RoundHalfEven(n, d) ==
    LET q == n \div d
        r2 == 2 * (n % d)
    IN  IF r2 < d THEN q
        ELSE IF r2 > d THEN q + 1
        ELSE IF q % 2 = 0 THEN q ELSE q + 1

\* self.chunk = self.sample_rate // self.fps
chunk == sample_rate \div fps

\* BaseASR.__init__: the capacity of self.queue for a policy, fps and backlog
\* (tenths of a second, already clamped to >= 0.1 s).
QueueCapacity(mode, f, tenths) ==
    IF mode = "drop"
    THEN LET min_chunks == Max(8, f \div 2)
         IN  Max(min_chunks, RoundHalfEven(tenths * f, 10))
    ELSE Max(f, RoundHalfEven(tenths * f, 10))

\* keep_recent = max(1, self.fps // 2)
keep_recent == Max(1, fps \div 2)

\* queue.Queue / mp.Queue primitives --------------------------------------
\* (a fullness test that is off by one)
QFullOffByOne(q, maxsize) == Len(q) > maxsize
QFull(q, maxsize) == Len(q) >= maxsize
\* (a put at the head of the queue)
QPutFront(q, x) == <<x>> \o q
\* put_nowait / put: the queue after a successful put
QPut(q, x) == Append(q, x)
\* (a drain that stops after the first get_nowait)
DrainOne(q) == IF q = <<>> THEN q ELSE Tail(q)
\* (a drain that stops after the second get_nowait)
DrainTwo(q) == IF Len(q) <= 2 THEN SubSeq(q, 1, 0) ELSE SubSeq(q, 3, Len(q))
\* _drain_queue_nowait: get_nowait until Empty
DrainQueueNowait(q) == SubSeq(q, 1, 0)

\* ------------------------------------------------- BaseReal custom states
\* Images in the cycle of a custom type.
CustomImgLen == 2
\* Samples in the clip of a custom audio type (one and a half chunks).
ClipSamples(t) == (3 * chunk) \div 2

\* BaseReal.get_audio_stream: the index after the read and the state after it.
GetAudioStreamIndex(t) == [custom_audio_index EXCEPT ![t] = @ + chunk]
\* (a clip whose end changes nothing)
GetAudioStreamStateStuck(t) == curr_state
GetAudioStreamState(t) ==
    IF GetAudioStreamIndex(t)[t] >= ClipSamples(t) THEN 1 ELSE curr_state

\* BaseReal.set_custom_state(audiotype, reinit)
SetCustomState ==
    /\ custom_calls < MaxCustom
    /\ custom_calls' = custom_calls + 1
    /\ \E audiotype \in RequestedTypes, reinit \in BOOLEAN :
        IF audiotype \notin DOMAIN custom_audio_index
        THEN UNCHANGED <<customVars, custom_index>>
        ELSE /\ curr_state' = audiotype
             /\ (reinit \/ custom_audio_index[audiotype] < ClipSamples(audiotype))
             /\ custom_audio_index' =
                  IF reinit THEN [custom_audio_index EXCEPT ![audiotype] = 0]
                  ELSE custom_audio_index
             /\ custom_index' =
                  IF reinit THEN [custom_index EXCEPT ![audiotype] = 0]
                  ELSE custom_index
    /\ UNCHANGED <<enable_transition, last_speaking_frame, last_silent_frame, combine_frame>>
    /\ UNCHANGED <<configVars, ctlVars, errVars, sinkVars, shutVars, ingestVars, mirrorVars, flush_calls, pipeVars>>

\* ------------------------------------------------ BaseASR.get_audio_frame
\* The (chunk id, type) get_audio_frame returns: a queued chunk with type 0,
\* else on timeout the custom clip's chunk (id 0) with the state read AFTER
\* get_audio_stream ran, else a zero chunk with type 1.
GetAudioFrameResult ==
    IF queue # <<>> THEN [id |-> Head(queue), type |-> 0]
    ELSE IF curr_state > 1
         THEN [id |-> 0, type |-> GetAudioStreamState(curr_state)]
         ELSE [id |-> 0, type |-> 1]

\* The effect of one get_audio_frame call on the queue and the custom state.
GetAudioFrameEffect ==
    /\ queue' = IF queue # <<>> THEN Tail(queue) ELSE queue
    /\ delivered' = IF queue # <<>> THEN Append(delivered, Head(queue)) ELSE delivered
    /\ IF queue = <<>> /\ curr_state > 1
       THEN /\ custom_audio_index' = GetAudioStreamIndex(curr_state)
            /\ curr_state' = GetAudioStreamState(curr_state)
       ELSE UNCHANGED customVars

\* A consumer calling get_audio_frame once.
GetAudioFrame ==
    /\ last_got' = GetAudioFrameResult
    /\ GetAudioFrameEffect
    /\ UNCHANGED <<configVars, ctlVars, frameVars, errVars, sinkVars, shutVars, mirrorVars, callVars, pipeVars, putPc, pending, dropped_now,
                   qsize_seen, put_outcome, dropped_audio_chunks, pushed>>

\* ------------------------------------------------ BaseASR.put_audio_frame
\* The producer thread runs put_audio_frame step by step; the consumer may run
\* between any two steps.  putPc is the producer's position:
\*   idle | block_put | trim1_check | trim1_get | put1 |
\*   trim2_check | trim2_get | put2
\* Entering put_audio_frame with a new chunk (chunks are numbered in push order).
PutEnter(maxPush) ==
    /\ putPc = "idle"
    /\ pushed < maxPush
    /\ pushed' = pushed + 1
    /\ pending' = pushed + 1
    /\ put_outcome' = "none"
    /\ IF audio_overflow_mode = "block"
       THEN putPc' = "block_put" /\ UNCHANGED dropped_now
       ELSE putPc' = "trim1_check" /\ dropped_now' = 0
    /\ UNCHANGED <<configVars, ctlVars, frameVars, errVars, sinkVars, shutVars, customVars, mirrorVars, callVars, pipeVars, queue, qsize_seen,
                   dropped_audio_chunks, delivered, last_got>>

\* block policy: queue.put(block=True, timeout) succeeded.
PutBlockOk ==
    /\ putPc = "block_put"
    /\ ~QFull(queue, max_audio_queue_chunks)
    /\ queue' = QPut(queue, pending)
    /\ putPc' = "idle"
    /\ pending' = 0
    /\ put_outcome' = "queued"
    /\ UNCHANGED <<configVars, ctlVars, frameVars, errVars, sinkVars, shutVars, customVars, mirrorVars, callVars, pipeVars, dropped_now, qsize_seen,
                   dropped_audio_chunks, pushed, delivered, last_got>>

\* block policy: the put timed out with queue.Full.  A producer that gave up
\* here would lose the chunk.
PutBlockGiveUp ==
    /\ putPc' = "idle"
    /\ pending' = 0
    /\ put_outcome' = "dropped"
    /\ UNCHANGED <<configVars, ctlVars, frameVars, errVars, sinkVars, shutVars, customVars, mirrorVars, callVars, pipeVars, queue, dropped_now,
                   qsize_seen, dropped_audio_chunks, pushed, delivered, last_got>>

\* block policy, on queue.Full: `continue`, the same put is tried again.
PutBlockOnFull == UNCHANGED vars

PutBlockFull ==
    /\ putPc = "block_put"
    /\ QFull(queue, max_audio_queue_chunks)
    /\ PutBlockOnFull

\* The loop condition of both trim loops: while self.queue.qsize() > keep_recent
\* (a trim loop that empties the queue)
TrimCondAll(n) == n > 0
TrimCond(n) == n > keep_recent

\* One evaluation of a trim loop's condition (qsize() is read here, the
\* get_nowait follows in a separate step).
TrimCheck(here, body, after) ==
    /\ putPc = here
    /\ qsize_seen' = Len(queue)
    /\ putPc' = IF TrimCond(Len(queue)) THEN body ELSE after
    /\ UNCHANGED <<configVars, ctlVars, frameVars, errVars, sinkVars, shutVars, customVars, mirrorVars, callVars, pipeVars, queue, pending, dropped_now,
                   put_outcome, dropped_audio_chunks, pushed, delivered, last_got>>

\* (a trim loop that removes the newest chunk)
TrimGetNewest(here, check, after) ==
    /\ putPc = here
    /\ IF queue # <<>>
       THEN /\ queue' = SubSeq(queue, 1, Len(queue) - 1)
            /\ dropped_now' = dropped_now + 1
            /\ putPc' = check
       ELSE /\ UNCHANGED <<queue, dropped_now>>
            /\ putPc' = after
    /\ UNCHANGED <<configVars, ctlVars, frameVars, errVars, sinkVars, shutVars, customVars, mirrorVars, callVars, pipeVars, pending, qsize_seen,
                   put_outcome, dropped_audio_chunks, pushed, delivered, last_got>>

\* The body of a trim loop: get_nowait, counting the eviction; Empty breaks.
TrimGet(here, check, after) ==
    /\ putPc = here
    /\ IF queue # <<>>
       THEN /\ queue' = Tail(queue)
            /\ dropped_now' = dropped_now + 1
            /\ putPc' = check
       ELSE /\ UNCHANGED <<queue, dropped_now>>
            /\ putPc' = after
    /\ UNCHANGED <<configVars, ctlVars, frameVars, errVars, sinkVars, shutVars, customVars, mirrorVars, callVars, pipeVars, pending, qsize_seen,
                   put_outcome, dropped_audio_chunks, pushed, delivered, last_got>>

Trim1Check == TrimCheck("trim1_check", "trim1_get", "put1")
Trim1Get == TrimGet("trim1_get", "trim1_check", "put1")
Trim2Check == TrimCheck("trim2_check", "trim2_get", "put2")
Trim2Get == TrimGet("trim2_get", "trim2_check", "put2")

\* The first put_nowait: on success put_audio_frame returns at once (the drop
\* counter is not updated on this path); on Full the second trim loop follows.
Put1 ==
    /\ putPc = "put1"
    /\ IF ~QFull(queue, max_audio_queue_chunks)
       THEN /\ queue' = QPut(queue, pending)
            /\ putPc' = "idle"
            /\ pending' = 0
            /\ put_outcome' = "queued"
       ELSE /\ putPc' = "trim2_check"
            /\ UNCHANGED <<queue, pending, put_outcome>>
    /\ UNCHANGED <<configVars, ctlVars, frameVars, errVars, sinkVars, shutVars, customVars, mirrorVars, callVars, pipeVars, dropped_now, qsize_seen,
                   dropped_audio_chunks, pushed, delivered, last_got>>

\* The second put_nowait, then the drop accounting at the end of the call.
Put2 ==
    /\ putPc = "put2"
    /\ IF ~QFull(queue, max_audio_queue_chunks)
       THEN /\ queue' = QPut(queue, pending)
            /\ put_outcome' = "queued"
            /\ UNCHANGED dropped_now
            /\ dropped_audio_chunks' = dropped_audio_chunks + dropped_now
       ELSE /\ UNCHANGED queue
            /\ put_outcome' = "dropped"
            /\ dropped_now' = dropped_now + 1
            /\ dropped_audio_chunks' = dropped_audio_chunks + dropped_now + 1
    /\ putPc' = "idle"
    /\ pending' = 0
    /\ UNCHANGED <<configVars, ctlVars, frameVars, errVars, sinkVars, shutVars, customVars, mirrorVars, callVars, pipeVars, qsize_seen, pushed,
                   delivered, last_got>>

PutAudioFrame(maxPush) ==
    \/ PutEnter(maxPush)
    \/ PutBlockOk
    \/ PutBlockFull
    \/ Trim1Check
    \/ Trim1Get
    \/ Put1
    \/ Trim2Check
    \/ Trim2Get
    \/ Put2

\* ------------------------------------------------------------ mirror index
\* (a mirror that forgets the -1 on the way back)
mirror_index_no_minus_one(size, i) ==
    LET turn == i \div size
        res == i % size
    IN  IF turn % 2 = 0 THEN res ELSE size - res

\* (a traversal that starts every turn at 0)
mirror_index_restarting(size, i) == i % size

\* musereal.__mirror_index(size, index)
mirror_index_inference(size, i) ==
    LET turn == i \div size
        res == i % size
    IN  IF turn % 2 = 0 THEN res ELSE size - res - 1

\* BaseReal.mirror_index(size, index)
mirror_index(size, i) ==
    LET turn == i \div size
        res == i % size
    IN  IF turn % 2 = 0 THEN res ELSE size - res - 1

\* One evaluation of both mirror functions on a chosen size and index.
MirrorCall ==
    /\ \E size \in 1..MaxLen, i \in 0..MaxIndex :
        /\ m_size' = size
        /\ m_index' = i
        /\ m_res' = mirror_index_inference(size, i)
        /\ m_res_base' = mirror_index(size, i)
    /\ UNCHANGED <<configVars, ctlVars, frameVars, errVars, sinkVars, shutVars, ingestVars, customVars, callVars, pipeVars>>

\* --------------------------------- put_audio_frame as one uninterrupted call
\* The chunks a trim loop leaves when nothing else touches the queue.
TrimmedQueue(q) ==
    IF TrimCond(Len(q)) THEN SubSeq(q, Len(q) - keep_recent + 1, Len(q)) ELSE q

\* A whole put_audio_frame call with no other thread running in between.
PutAudioFrameCall ==
    /\ putPc = "idle"
    /\ pushed < MaxPipePush
    /\ pushed' = pushed + 1
    /\ IF audio_overflow_mode = "block"
       THEN /\ ~QFull(queue, max_audio_queue_chunks)
            /\ queue' = QPut(queue, pushed + 1)
            /\ put_outcome' = "queued"
            /\ UNCHANGED <<dropped_now, dropped_audio_chunks>>
       ELSE LET trimmed == TrimmedQueue(queue)
                evicted == Len(queue) - Len(trimmed)
            IN  IF ~QFull(trimmed, max_audio_queue_chunks)
                THEN /\ queue' = QPut(trimmed, pushed + 1)
                     /\ put_outcome' = "queued"
                     /\ dropped_now' = evicted
                     /\ UNCHANGED dropped_audio_chunks
                ELSE /\ queue' = trimmed
                     /\ put_outcome' = "dropped"
                     /\ dropped_now' = evicted + 1
                     /\ dropped_audio_chunks' = dropped_audio_chunks + evicted + 1
    /\ UNCHANGED <<configVars, ctlVars, frameVars, errVars, sinkVars, shutVars, customVars, mirrorVars, callVars, pipeVars, putPc, pending,
                   qsize_seen, delivered, last_got>>

\* ----------------------------------------------------- BaseASR.flush_talk
\* BaseReal.flush_talk -> asr.flush_talk: drains the ingest queue, the audio
\* output queue and the feature queue (the TTS engine's own flush is external).
FlushTalk ==
    /\ flush_calls < MaxFlush
    /\ flush_calls' = flush_calls + 1
    /\ queue' = DrainQueueNowait(queue)
    /\ output_queue' = DrainQueueNowait(output_queue)
    /\ feat_queue' = DrainQueueNowait(feat_queue)
    /\ UNCHANGED <<configVars, ctlVars, frameVars, errVars, sinkVars, shutVars, customVars, mirrorVars, custom_calls, pipeCfgVars,
                   res_frame_queue, rsVars, infVars, outVars, putPc, pending, dropped_now,
                   qsize_seen, put_outcome, dropped_audio_chunks, pushed,
                   delivered, last_got>>

\* Two flush_talk calls back to back, nothing running in between: the second
\* call drains what the first one left.
FlushTalkTwice ==
    /\ flush_calls < MaxFlush
    /\ flush_calls' = flush_calls + 2
    /\ queue' = DrainQueueNowait(DrainQueueNowait(queue))
    /\ output_queue' = DrainQueueNowait(DrainQueueNowait(output_queue))
    /\ feat_queue' = DrainQueueNowait(DrainQueueNowait(feat_queue))
    /\ UNCHANGED <<configVars, ctlVars, frameVars, errVars, sinkVars, shutVars, customVars, mirrorVars, custom_calls, pipeCfgVars,
                   res_frame_queue, rsVars, infVars, outVars, putPc, pending, dropped_now,
                   qsize_seen, put_outcome, dropped_audio_chunks, pushed,
                   delivered, last_got>>

\* ------------------------------------------------------- MuseASR.run_step
\* rsPc: get | push | evict_feat | evict_audio | evict_put | final_put
\* Retries of the block policy after the first put, and eviction rounds of the
\* drop policy.
FeatBlockRetries == 5
FeatDropRounds == 3

\* One iteration of the loop `for _ in range(self.batch_size*2)`: a
\* get_audio_frame call whose result goes to self.frames and output_queue.
\* After the last iteration the length check decides between return and push.
RunStepGet(maxChunks) ==
    /\ rsPc = "get"
    /\ rs_i > 0 \/ 2 * batch_size * steps < maxChunks
    /\ steps' = IF rs_i = 0 THEN steps + 1 ELSE steps
    /\ GetAudioFrameEffect
    /\ frames_len' = frames_len + 1
    /\ output_queue' = QPut(output_queue,
                            [seq |-> next_seq, type |-> GetAudioFrameResult.type])
    /\ next_seq' = next_seq + 1
    /\ IF rs_i + 1 < 2 * batch_size
       THEN rs_i' = rs_i + 1 /\ UNCHANGED rsPc
       ELSE /\ rs_i' = 0
            /\ rsPc' = IF frames_len + 1 <= stride_left_size + stride_right_size
                       THEN "get" ELSE "push"
    /\ UNCHANGED <<configVars, ctlVars, frameVars, errVars, sinkVars, shutVars, mirrorVars, callVars, pipeCfgVars, feat_queue, res_frame_queue,
                   infVars, outVars, push_try, evict_j, dropped_feat, evicted_batch,
                   dropped_feat_chunks, putPc, pending, dropped_now, qsize_seen,
                   put_outcome, dropped_audio_chunks, pushed, last_got>>

\* The end of run_step after _push_feat_with_backpressure returned `pushed_ok`:
\* the drop counter, and self.frames cut to its last l + r entries.
RunStepFinish(pushed_ok) ==
    /\ dropped_feat_chunks' = IF pushed_ok THEN dropped_feat_chunks
                              ELSE dropped_feat_chunks + 1
    /\ frames_len' = Min(frames_len, stride_left_size + stride_right_size)
    /\ rsPc' = "get"
    /\ push_try' = 0
    /\ evict_j' = 0

\* (a block policy that goes on trying)
PushBlockKeepsTrying ==
    UNCHANGED <<feat_queue, output_queue, dropped_feat, evicted_batch, rsPc, frames_len, evict_j,
                dropped_feat_chunks, push_try>>

\* What the block policy does when its last retry also found the queue full:
\* return False, the batch is dropped.  (Its audio stays in output_queue.)
PushBlockExhausted ==
    /\ RunStepFinish(FALSE)
    /\ UNCHANGED <<feat_queue, output_queue, dropped_feat, evicted_batch>>

\* _push_feat_with_backpressure, block policy: put(timeout=0.2), then up to
\* five more tries.
PushBlock ==
    /\ rsPc = "push"
    /\ feat_overflow_mode = "block"
    /\ IF ~QFull(feat_queue, feat_queue_maxsize)
       THEN /\ feat_queue' = QPut(feat_queue, steps)
            /\ RunStepFinish(TRUE)
            /\ UNCHANGED <<output_queue, dropped_feat, evicted_batch>>
       ELSE IF push_try < FeatBlockRetries
            THEN /\ push_try' = push_try + 1
                 /\ UNCHANGED <<feat_queue, output_queue, dropped_feat, evicted_batch, rsPc,
                                frames_len, evict_j, dropped_feat_chunks>>
            ELSE PushBlockExhausted
    /\ UNCHANGED <<configVars, ctlVars, frameVars, errVars, sinkVars, shutVars, ingestVars, customVars, mirrorVars, callVars, pipeCfgVars,
                   res_frame_queue, infVars, outVars, rs_i, steps, next_seq>>

\* drop policy: the first put_nowait.
PushDropFirst ==
    /\ rsPc = "push"
    /\ feat_overflow_mode = "drop"
    /\ IF ~QFull(feat_queue, feat_queue_maxsize)
       THEN /\ feat_queue' = QPut(feat_queue, steps)
            /\ RunStepFinish(TRUE)
            /\ UNCHANGED <<dropped_feat, evicted_batch>>
       ELSE /\ rsPc' = "evict_feat"
            /\ dropped_feat' = 0 /\ evicted_batch' = 0
            /\ push_try' = 0
            /\ UNCHANGED <<feat_queue, frames_len, evict_j, dropped_feat_chunks>>
    /\ UNCHANGED <<configVars, ctlVars, frameVars, errVars, sinkVars, shutVars, ingestVars, customVars, mirrorVars, callVars, pipeCfgVars,
                   output_queue, res_frame_queue, infVars, outVars, rs_i, steps,
                   next_seq>>

\* drop policy, one eviction round: feat_queue.get_nowait() (Empty: pass).
PushDropEvictFeat ==
    /\ rsPc = "evict_feat"
    /\ IF feat_queue # <<>>
       THEN /\ feat_queue' = Tail(feat_queue)
            /\ dropped_feat' = dropped_feat + 1
            /\ evicted_batch' = Head(feat_queue)
            /\ rsPc' = "evict_audio"
            /\ evict_j' = 0
       ELSE /\ rsPc' = "evict_put"
            /\ UNCHANGED <<feat_queue, dropped_feat, evicted_batch, evict_j>>
    /\ UNCHANGED <<configVars, ctlVars, frameVars, errVars, sinkVars, shutVars, ingestVars, customVars, mirrorVars, callVars, pipeCfgVars,
                   output_queue, res_frame_queue, infVars, outVars, rs_i,
                   frames_len, steps, next_seq, push_try, dropped_feat_chunks>>

\* drop policy: after an evicted batch, output_queue.get_nowait() up to
\* 2*batch_size times (Empty: break).
PushDropEvictAudio ==
    /\ rsPc = "evict_audio"
    /\ IF output_queue # <<>>
       THEN /\ output_queue' = Tail(output_queue)
            /\ evict_j' = evict_j + 1
            /\ rsPc' = IF evict_j + 1 < 2 * batch_size THEN "evict_audio" ELSE "evict_put"
       ELSE /\ rsPc' = "evict_put"
            /\ UNCHANGED <<output_queue, evict_j>>
    /\ UNCHANGED <<configVars, ctlVars, frameVars, errVars, sinkVars, shutVars, ingestVars, customVars, mirrorVars, callVars, pipeCfgVars,
                   feat_queue, res_frame_queue, infVars, outVars, rs_i,
                   frames_len, steps, next_seq, push_try, dropped_feat, evicted_batch,
                   dropped_feat_chunks>>

\* drop policy: the put_nowait that ends an eviction round; after the third
\* round that failed, the last put(block=True, timeout=0.01), whose failure
\* makes _push_feat_with_backpressure return False.
PushDropPut ==
    /\ rsPc \in {"evict_put", "final_put"}
    /\ IF ~QFull(feat_queue, feat_queue_maxsize)
       THEN /\ feat_queue' = QPut(feat_queue, steps)
            /\ RunStepFinish(TRUE)
       ELSE IF rsPc = "evict_put"
            THEN /\ push_try' = push_try + 1
                 /\ rsPc' = IF push_try + 1 < FeatDropRounds
                            THEN "evict_feat" ELSE "final_put"
                 /\ UNCHANGED <<feat_queue, frames_len, evict_j, dropped_feat_chunks>>
            ELSE /\ RunStepFinish(FALSE)
                 /\ UNCHANGED feat_queue
    /\ UNCHANGED <<configVars, ctlVars, frameVars, errVars, sinkVars, shutVars, ingestVars, customVars, mirrorVars, callVars, pipeCfgVars,
                   output_queue, res_frame_queue, infVars, outVars, rs_i, steps,
                   next_seq, dropped_feat, evicted_batch>>

RunStep(maxChunks) ==
    \/ RunStepGet(maxChunks)
    \/ PushBlock
    \/ PushDropFirst
    \/ PushDropEvictFeat
    \/ PushDropEvictAudio
    \/ PushDropPut

\* ------------------------------------------------------ musereal.inference
\* infPc: get_feat | get_audio | synth | synth_retry | emit | dead
\* `if type==0: is_all_silence=False`: the chunk types that clear the flag.
\* (a test that lets every non-silence type clear the flag)
ClearsOnNonSilence(type) == type # 1
\* (a worker that never leaves the all-silence branch)
ClearsNever(type) == FALSE
ClearsAllSilence(type) == type = 0

\* `index = index + 1` after each result put on res_frame_queue.
\* (an emission that forgets to advance)
IndexStuck(i) == i
IndexAfterEmit(i) == i + 1

\* last_emit / prev_emit before the worker has emitted a result.
NoEmit == [idx |-> -1, n |-> -1]

\* whisper_chunks = audio_feat_queue.get(block=True, timeout=1); on Empty the
\* loop just starts over.
InfGetFeat ==
    /\ infPc = "get_feat"
    /\ feat_queue # <<>>
    /\ whisper_chunks' = Head(feat_queue)
    /\ feat_queue' = Tail(feat_queue)
    /\ is_all_silence' = TRUE
    /\ audio_frames' = <<>>
    /\ infPc' = "get_audio"
    /\ UNCHANGED <<configVars, ctlVars, frameVars, errVars, sinkVars, shutVars, ingestVars, customVars, mirrorVars, callVars, pipeCfgVars,
                   output_queue, res_frame_queue, rsVars, outVars, index, emit_i,
                   recon, batches_done, failed_index, last_emit, prev_emit>>

\* Queue(maxsize=max(self.fps * 2, 100))
RealtimeQueueMax == Max(fps * 2, 100)

\* _push_realtime_audio_frames: put_nowait each frame; on Full the oldest
\* entry is taken off and the put tried once more.  None: nothing is pushed.
RECURSIVE PushRealtimeAudioFrames(_, _)
PushRealtimeAudioFrames(q, frames) ==
    IF frames = <<>> THEN q
    ELSE LET room == IF QFull(q, RealtimeQueueMax) THEN Tail(q) ELSE q
         IN  PushRealtimeAudioFrames(QPut(room, Head(frames)), Tail(frames))

\* One iteration of `for _ in range(batch_size*2)`: audio_out_queue.get()
\* (blocking, no timeout).  After the last one the batch goes to the realtime
\* audio bridge, if there is one, and is classified.
InfGetAudio ==
    /\ infPc = "get_audio"
    /\ output_queue # <<>>
    /\ LET e == Head(output_queue)
           silent == is_all_silence /\ ~ClearsAllSilence(e.type)
       IN  /\ audio_frames' = Append(audio_frames, e)
           /\ is_all_silence' = silent
           /\ IF Len(audio_frames) + 1 < 2 * batch_size
              THEN UNCHANGED <<infPc, recon, emit_i, realtime_audio_queue>>
              ELSE /\ infPc' = IF silent THEN "emit" ELSE "synth"
                   /\ recon' = "none"
                   /\ emit_i' = 0
                   /\ realtime_audio_queue' =
                        IF use_realtime_audio
                        THEN PushRealtimeAudioFrames(realtime_audio_queue,
                                                     Append(audio_frames, e))
                        ELSE realtime_audio_queue
    /\ output_queue' = Tail(output_queue)
    /\ UNCHANGED <<emitted, transport, vircam, audio_tmp, playPc>>
    /\ UNCHANGED <<configVars, ctlVars, frameVars, errVars, shutVars, ingestVars, customVars, mirrorVars, callVars, pipeCfgVars,
                   feat_queue, res_frame_queue, rsVars, outVars, whisper_chunks,
                   index, batches_done, failed_index, last_emit, prev_emit>>

\* An exception leaving the synthesis call: nothing in `inference` catches it
\* (only the SDPA RuntimeErrors are retried once, everything else is re-raised),
\* so it ends the worker thread.
SynthesisRaised ==
    /\ infPc' = "dead"
    /\ failed_index' = index
    /\ UNCHANGED <<recon, emit_i>>

SynthesisReturned ==
    /\ infPc' = "emit"
    /\ recon' = "frame"
    /\ emit_i' = 0
    /\ UNCHANGED failed_index

\* unet.model(...) and vae.decode_latents(...): returns, raises an SDPA
\* kernel RuntimeError, or raises anything else.
InfSynth ==
    /\ infPc = "synth"
    /\ \E outcome \in {"ok", "sdpa_error", "error"} :
        CASE outcome = "ok" -> SynthesisReturned
          [] outcome = "sdpa_error" ->
                infPc' = "synth_retry" /\ UNCHANGED <<recon, emit_i, failed_index>>
          [] OTHER -> SynthesisRaised
    /\ UNCHANGED <<configVars, ctlVars, frameVars, errVars, sinkVars, shutVars, ingestVars, customVars, mirrorVars, callVars, pipeCfgVars,
                   output_queue, feat_queue, res_frame_queue, rsVars, outVars,
                   whisper_chunks, audio_frames, is_all_silence, index,
                   batches_done, last_emit, prev_emit>>

\* The single retry inside the except clause: a second failure propagates.
InfSynthRetry ==
    /\ infPc = "synth_retry"
    /\ \E outcome \in {"ok", "error"} :
        IF outcome = "ok" THEN SynthesisReturned ELSE SynthesisRaised
    /\ UNCHANGED <<configVars, ctlVars, frameVars, errVars, sinkVars, shutVars, ingestVars, customVars, mirrorVars, callVars, pipeCfgVars,
                   output_queue, feat_queue, res_frame_queue, rsVars, outVars,
                   whisper_chunks, audio_frames, is_all_silence, index,
                   batches_done, last_emit, prev_emit>>

\* `index // size` in __mirror_index raises ZeroDivisionError for size 0.
MirrorRaises(size) == size = 0

\* One res_frame_queue.put((pixels, __mirror_index(length,index), audio pair))
\* (blocking while the queue holds 2*batch_size results), then index += 1.
\* n is the logical index the tuple was made from (not part of the tuple);
\* last_emit and prev_emit remember the last two results put.
InfEmit ==
    /\ infPc = "emit"
    /\ ~MirrorRaises(length)
    /\ ~QFull(res_frame_queue, 2 * batch_size)
    /\ LET res == [pixels |-> recon,
                   idx |-> mirror_index_inference(length, index),
                   audio |-> SubSeq(audio_frames, 2 * emit_i + 1, 2 * emit_i + 2),
                   n |-> index]
       IN  /\ res_frame_queue' = QPut(res_frame_queue, res)
           /\ last_emit' = [idx |-> res.idx, n |-> res.n]
           /\ prev_emit' = last_emit
    /\ index' = IndexAfterEmit(index)
    /\ IF emit_i + 1 < batch_size
       THEN emit_i' = emit_i + 1 /\ UNCHANGED <<infPc, batches_done>>
       ELSE /\ emit_i' = 0
            /\ infPc' = "get_feat"
            /\ batches_done' = batches_done + 1
    /\ UNCHANGED <<configVars, ctlVars, frameVars, errVars, sinkVars, shutVars, ingestVars, customVars, mirrorVars, callVars, pipeCfgVars,
                   output_queue, feat_queue, rsVars, outVars, whisper_chunks,
                   audio_frames, is_all_silence, recon, failed_index>>

\* The argument of the first put is evaluated with an empty asset cycle:
\* ZeroDivisionError, which nothing in `inference` catches.
InfEmitRaised ==
    /\ infPc = "emit"
    /\ MirrorRaises(length)
    /\ infPc' = "dead"
    /\ UNCHANGED <<configVars, ctlVars, frameVars, errVars, sinkVars, shutVars, ingestVars, customVars, mirrorVars,
                   callVars, pipeCfgVars, output_queue, feat_queue, res_frame_queue,
                   rsVars, outVars, whisper_chunks, audio_frames, is_all_silence,
                   index, emit_i, recon, batches_done, failed_index, last_emit,
                   prev_emit>>

Inference ==
    \/ InfGetFeat
    \/ InfGetAudio
    \/ InfSynth
    \/ InfSynthRetry
    \/ InfEmit

\* ------------------------------------------------ BaseReal.process_frames
\* pfPc: bridge | drain | get | dead.  voice_age abstracts now - _last_voice_ts:
\*   none (no voice yet: _last_voice_ts = 0.0), fresh (<= hangover), expired.
\* With a realtime audio bridge, results beyond one are discarded before the get.
\* if self.res_frame_queue.qsize() <= 1: break
res_keep == 1
\* (a drain that keeps nothing)
ResKeepNone(k) == 0
\* the results the drain leaves queued
ResKeep(k) == k

\* (no pair is ever raw silence)
RawSilenceNever(audio) == FALSE
\* raw_silence = (audio_frames[0][1] != 0 and audio_frames[1][1] != 0)
RawSilence(audio) == audio[1].type # 0 /\ audio[2].type # 0

\* (no hangover)
CurrentSpeakingNoHangover(raw_silence, age) == ~raw_silence
\* current_speaking = (not raw_silence) or ((now - _last_voice_ts) <= speaking_hangover_sec)
CurrentSpeaking(raw_silence, age) == ~raw_silence \/ age = "fresh"

\* The position at the top of the `while not quit_event.is_set()` loop.
LoopTop == IF use_realtime_audio THEN "bridge" ELSE "get"

\* vcam_audio_qmax_chunks and vcam_audio_keep_chunks with the default
\* LT_VCAM_AUDIO_QUEUE_SECONDS = 0.6 and LT_VCAM_AUDIO_KEEP_SECONDS = 0.2.
VcamAudioQmax == Max(8, RoundHalfEven(6 * fps, 10))
VcamAudioKeep == Max(2, Min(VcamAudioQmax - 1, RoundHalfEven(2 * fps, 10)))

\* _push_virtualcam_audio: the backlog beyond the keep mark is dropped, then
\* put_nowait (the chunk is dropped if the queue is full even so).
PushVirtualcamAudio(q, x) ==
    LET kept == IF Len(q) > VcamAudioKeep
                THEN SubSeq(q, Len(q) - VcamAudioKeep + 1, Len(q)) ELSE q
    IN  IF QFull(kept, VcamAudioQmax) THEN kept ELSE QPut(kept, x)

\* _emit_audio_frame for each chunk of `frames`, in order: with the virtual
\* camera the chunk goes to audio_tmp, with webrtc to the audio track (which
\* is outside this model).
RECURSIVE EmitAudioFrames(_, _)
EmitAudioFrames(q, frames) ==
    IF frames = <<>> \/ transport # "virtualcam" THEN q
    ELSE EmitAudioFrames(PushVirtualcamAudio(q, Head(frames).seq), Tail(frames))

\* The numbers of the chunks in `frames`.
Seqs(frames) == [i \in 1..Len(frames) |-> frames[i].seq]

\* (an output loop that emits the pair with the bridge present as well)
PairEmittedAlways(realtime) == TRUE
\* `if not use_realtime_audio:` before the per-frame audio emission.
PairEmitted(realtime) == ~realtime

\* With a realtime audio bridge: everything on the bridge is emitted.
PfBridge ==
    /\ pfPc = "bridge"
    /\ pfPc' = "drain"
    /\ realtime_audio_queue' = DrainQueueNowait(realtime_audio_queue)
    /\ emitted' = IF realtime_audio_queue = <<>> THEN emitted
                  ELSE Seqs(realtime_audio_queue)
    /\ audio_tmp' = EmitAudioFrames(audio_tmp, realtime_audio_queue)
    /\ UNCHANGED <<configVars, ctlVars, frameVars, errVars, shutVars, ingestVars, customVars, mirrorVars,
                   callVars, pipeCfgVars, output_queue, feat_queue, res_frame_queue,
                   rsVars, infVars, speaking, voice_age, last_render, transport,
                   vircam, playPc>>

PfDrain ==
    /\ pfPc = "drain"
    /\ IF use_realtime_audio /\ Len(res_frame_queue) > ResKeep(res_keep)
       THEN res_frame_queue' = Tail(res_frame_queue) /\ UNCHANGED pfPc
       ELSE pfPc' = "get" /\ UNCHANGED res_frame_queue
    /\ UNCHANGED <<configVars, ctlVars, frameVars, errVars, sinkVars, shutVars, ingestVars, customVars, mirrorVars, callVars, pipeCfgVars,
                   output_queue, feat_queue, rsVars, infVars, speaking, voice_age,
                   last_render>>

\* Frames: what they show (kind), the position in their cycle (idx) and the
\* logical index of the result whose pixels they hold (n, -1 without pixels).
NoFrame == [kind |-> "none", idx |-> 0, n |-> -1]
\* self.frame_list_cycle[idx]
BackgroundFrame(idx) == [kind |-> "bg", idx |-> idx, n |-> -1]
\* self.custom_img_cycle[audiotype][mirindex]
CustomFrame(audiotype) ==
    [kind |-> "custom",
     idx |-> mirror_index(CustomImgLen, custom_index[audiotype]), n |-> -1]
\* self.paste_back_frame(res_frame, idx)
PasteBackFrame(r) == [kind |-> "real", idx |-> r.idx, n |-> r.n]
\* cv2.addWeighted(from, 1 - alpha, to, alpha, 0)
AddWeighted(from, to) == [kind |-> "blend", idx |-> to.idx, n |-> to.n]

\* The branch of the frame selection taken for a pair.
FrameBranch(raw_silence, current_speaking) ==
    IF raw_silence /\ ~current_speaking THEN "silent"
    ELSE IF raw_silence THEN "hold"
    ELSE "real"

\* (a hold branch that shows the result's own background frame)
HoldFrameBackground(r) == BackgroundFrame(r.idx)
\* The hold branch: the last speaking frame, else the background frame.
HoldFrame(r) ==
    IF enable_transition /\ last_speaking_frame # NoFrame
    THEN last_speaking_frame
    ELSE BackgroundFrame(r.idx)

\* (a hold branch that refreshes the speaking cache)
SpeakingCacheAfterRefreshing(branch, frame) ==
    IF enable_transition /\ branch \in {"real", "hold"} THEN frame
    ELSE last_speaking_frame
\* `if enable_transition: _last_speaking_frame = combine_frame.copy()`
SpeakingCacheAfter(branch, frame) ==
    IF enable_transition /\ branch = "real" THEN frame ELSE last_speaking_frame

\* `if enable_transition: _last_silent_frame = combine_frame.copy()`
SilentCacheAfter(branch, frame) ==
    IF enable_transition /\ branch = "silent" THEN frame ELSE last_silent_frame

\* The frame selection of one iteration (basereal.py 621-655).  Whether the
\* iteration falls inside the transition window (time since _transition_start
\* below transition_duration) is open: `blend`.  A paste_back_frame exception
\* leaves the iteration before any frame or cache is written.
SelectFrame(r, branch, paste_raised) ==
    LET audiotype == r.audio[1].type
        custom == branch = "silent" /\ audiotype \in DOMAIN custom_index
        target == IF custom THEN CustomFrame(audiotype) ELSE BackgroundFrame(r.idx)
    IN  /\ custom_index' = IF custom THEN [custom_index EXCEPT ![audiotype] = @ + 1]
                           ELSE custom_index
        /\ IF paste_raised
           THEN UNCHANGED <<combine_frame, last_speaking_frame, last_silent_frame>>
           ELSE \E blend \in BOOLEAN :
                  /\ blend => /\ enable_transition
                              /\ \/ branch = "silent" /\ last_speaking_frame # NoFrame
                                 \/ branch = "real" /\ last_silent_frame # NoFrame
                  /\ LET frame ==
                          CASE branch = "silent" ->
                                 IF blend THEN AddWeighted(last_speaking_frame, target)
                                 ELSE target
                            [] branch = "hold" -> HoldFrame(r)
                            [] OTHER ->
                                 IF blend
                                 THEN AddWeighted(last_silent_frame, PasteBackFrame(r))
                                 ELSE PasteBackFrame(r)
                     IN  /\ combine_frame' = frame
                         /\ last_speaking_frame' = SpeakingCacheAfter(branch, frame)
                         /\ last_silent_frame' = SilentCacheAfter(branch, frame)

\* The rest of an iteration after res_frame_queue.get returned a result: the
\* speaking state is computed from the pair's types and the hangover, the
\* frame is made and sent, the pair is emitted.  `outcome` says how it went:
\*   ok           nothing raised
\*   paste_error  paste_back_frame raised: `continue`
\*   open_failed  pyvirtualcam.Camera(...) raised: caught, vircam stays None
\*   send_raised  vircam.send raised: nothing catches it
PfConsume(outcome) ==
    LET r == Head(res_frame_queue)
        raw_silence == RawSilence(r.audio)
        age == IF raw_silence THEN voice_age ELSE "fresh"
        emits == PairEmitted(use_realtime_audio) /\ outcome \in {"ok", "open_failed"}
    IN  /\ res_frame_queue' = Tail(res_frame_queue)
        /\ voice_age' = age
        /\ speaking' = CurrentSpeaking(raw_silence, age)
        /\ last_render' = r.n
        /\ vircam' = IF transport = "virtualcam" /\ outcome \in {"ok", "send_raised"}
                     THEN "open" ELSE vircam
        /\ emitted' = IF emits THEN Seqs(r.audio) ELSE emitted
        /\ audio_tmp' = IF emits THEN EmitAudioFrames(audio_tmp, r.audio)
                        ELSE audio_tmp
        /\ pfPc' = IF outcome = "send_raised" THEN "dead" ELSE LoopTop
        /\ SelectFrame(r, FrameBranch(raw_silence, CurrentSpeaking(raw_silence, age)),
                       outcome = "paste_error")

\* res_frame_queue.get(block=True, timeout): on Empty `continue`; otherwise an
\* iteration in which nothing raises.
PfGet ==
    /\ pfPc = "get"
    /\ IF res_frame_queue = <<>>
       THEN /\ pfPc' = LoopTop
            /\ UNCHANGED <<res_frame_queue, speaking, voice_age, last_render,
                           vircam, emitted, audio_tmp, last_speaking_frame,
                           last_silent_frame, combine_frame, custom_index>>
       ELSE PfConsume("ok")
    /\ UNCHANGED <<configVars, ctlVars, enable_transition, errVars, shutVars, ingestVars, customVars, mirrorVars,
                   callVars, pipeCfgVars, output_queue, feat_queue, rsVars, infVars,
                   realtime_audio_queue, transport, playPc>>

\* An iteration in which paste_back_frame (reached only for a pair that is not
\* raw silence) or the virtual camera fails.
PfGetFailed ==
    /\ pfPc = "get"
    /\ res_frame_queue # <<>>
    /\ \E outcome \in {"paste_error", "open_failed", "send_raised"} :
        /\ outcome = "paste_error" => ~RawSilence(Head(res_frame_queue).audio)
        /\ outcome = "open_failed" => transport = "virtualcam" /\ vircam = "none"
        /\ outcome = "send_raised" => transport = "virtualcam"
        /\ PfConsume(outcome)
    /\ UNCHANGED <<configVars, ctlVars, enable_transition, errVars, shutVars, ingestVars, customVars, mirrorVars,
                   callVars, pipeCfgVars, output_queue, feat_queue, rsVars, infVars,
                   realtime_audio_queue, transport, playPc>>

\* The play_audio thread: audio_queue.get, stream.write; a failed write is
\* followed by _open_output_stream, which is not inside any try.
PlayAudio ==
    /\ playPc = "run"
    /\ audio_tmp # <<>>
    /\ audio_tmp' = Tail(audio_tmp)
    /\ \E outcome \in {"ok", "reopened", "reopen_raised"} :
        playPc' = IF outcome = "reopen_raised" THEN "dead" ELSE "run"
    /\ UNCHANGED <<configVars, ctlVars, frameVars, errVars, shutVars, ingestVars, customVars, mirrorVars,
                   callVars, pipeVars, realtime_audio_queue, emitted, transport,
                   vircam>>

\* Time passing beyond speaking_hangover_sec since the last voiced pair.
HangoverExpires ==
    /\ voice_age = "fresh"
    /\ voice_age' = "expired"
    /\ UNCHANGED <<configVars, ctlVars, frameVars, errVars, sinkVars, shutVars, ingestVars, customVars, mirrorVars, callVars, pipeCfgVars,
                   output_queue, feat_queue, res_frame_queue, rsVars, infVars,
                   pfPc, speaking, last_render>>

ProcessFrames ==
    \/ PfBridge
    \/ PfDrain
    \/ PfGet
    \/ HangoverExpires

\* --------------------------------------------------------- MuseReal.render
\* renderPc: run (the pacing loop) | join_infer | join_process | done
\* The worker adds the position `stopped` to infPc, the output loop the
\* positions `closing` and `stopped` to pfPc.
\* Something outside sets the quit_event passed to render.
SetQuit ==
    /\ ~quit_event
    /\ quit_event' = TRUE
    /\ UNCHANGED <<configVars, ctlVars, frameVars, errVars, sinkVars, ingestVars, customVars, callVars, mirrorVars, pipeVars,
                   infer_quit_event, process_quit_event, renderPc, sink_closed>>

\* `while not quit_event.is_set()` in render, then self.asr.run_step().
RenderRunStep(maxChunks) ==
    /\ renderPc = "run"
    /\ (rsPc = "get" /\ rs_i = 0) => ~quit_event
    /\ RunStep(maxChunks)

\* The pacing loop sees quit_event: infer_quit_event.set(), then the join.
RenderLoopExit ==
    /\ renderPc = "run"
    /\ rsPc = "get" /\ rs_i = 0
    /\ quit_event
    /\ infer_quit_event' = TRUE
    /\ renderPc' = "join_infer"
    /\ UNCHANGED <<configVars, ctlVars, frameVars, errVars, sinkVars, ingestVars, customVars, callVars, mirrorVars, pipeVars,
                   quit_event, process_quit_event, sink_closed>>

\* `while not quit_event.is_set()` in inference, then the loop body.
InferenceLoop ==
    /\ infPc = "get_feat" => ~infer_quit_event
    /\ Inference

\* The worker sees its event at the top of its loop and returns.
InferenceExit ==
    /\ infPc = "get_feat"
    /\ infer_quit_event
    /\ infPc' = "stopped"
    /\ UNCHANGED <<configVars, ctlVars, frameVars, errVars, sinkVars, shutVars, ingestVars, customVars, callVars, mirrorVars,
                   pipeCfgVars, output_queue, feat_queue, res_frame_queue, rsVars,
                   outVars, whisper_chunks, audio_frames, is_all_silence, index,
                   emit_i, recon, batches_done, failed_index, last_emit, prev_emit>>

\* (a join that returns at once)
InferNotJoined == TRUE
\* infer_thread.join() returns: the worker thread has ended (by returning or
\* by an exception).
InferJoined == infPc \in {"stopped", "dead"}

\* After the join: process_quit_event.set(), then process_thread.join().
RenderJoinInfer ==
    /\ renderPc = "join_infer"
    /\ InferJoined
    /\ process_quit_event' = TRUE
    /\ renderPc' = "join_process"
    /\ UNCHANGED <<configVars, ctlVars, frameVars, errVars, sinkVars, ingestVars, customVars, callVars, mirrorVars, pipeVars,
                   quit_event, infer_quit_event, sink_closed>>

\* `while not quit_event.is_set()` in process_frames, then the loop body.
ProcessFramesLoop ==
    /\ pfPc = LoopTop => ~process_quit_event
    /\ ProcessFrames

\* The output loop sees its event at the top of its loop and leaves the loop.
ProcessFramesExit ==
    /\ pfPc = LoopTop
    /\ process_quit_event
    /\ pfPc' = "closing"
    /\ UNCHANGED <<configVars, ctlVars, frameVars, errVars, sinkVars, shutVars, ingestVars, customVars, callVars, mirrorVars,
                   pipeCfgVars, output_queue, feat_queue, res_frame_queue, rsVars,
                   infVars, speaking, voice_age, last_render>>

\* After the loop: audio_thread.join() and vircam.close(), then the thread ends.
ProcessFramesClose ==
    /\ pfPc = "closing"
    /\ sink_closed' = TRUE
    /\ pfPc' = "stopped"
    /\ UNCHANGED <<configVars, ctlVars, frameVars, errVars, sinkVars, ingestVars, customVars, callVars, mirrorVars,
                   pipeCfgVars, output_queue, feat_queue, res_frame_queue, rsVars,
                   infVars, speaking, voice_age, last_render,
                   quit_event, infer_quit_event, process_quit_event, renderPc>>

\* process_thread.join() returns and render returns.
RenderJoinProcess ==
    /\ renderPc = "join_process"
    /\ pfPc = "stopped"
    /\ renderPc' = "done"
    /\ UNCHANGED <<configVars, ctlVars, frameVars, errVars, sinkVars, ingestVars, customVars, callVars, mirrorVars, pipeVars,
                   quit_event, infer_quit_event, process_quit_event, sink_closed>>

\* target_step_sec = (self.batch_size * 2) / float(self.fps), in units of
\* 1/fps milliseconds.
TargetStep == 2 * batch_size * 1000
\* (a fallback sleep of the whole step)
FallbackSleepWholeStep(target) == target
\* time.sleep(min(target_step_sec, 0.05)), in the same units.
FallbackSleep(target) == Min(target, 50 * fps)

\* An exception leaves run_step between the audio reads and the push (from
\* np.concatenate, audio2feat or feature2chunks): the batch's audio entries are
\* already on output_queue, self.frames is not cut, no feature batch is pushed.
\* render's `except Exception` counts it, sleeps and continues the loop.
RunStepRaised ==
    /\ renderPc = "run"
    /\ rsPc = "push" /\ push_try = 0
    /\ asr_err_count < MaxAsrErrors
    /\ asr_err_count' = asr_err_count + 1
    /\ fallback_sleep' = FallbackSleep(TargetStep)
    /\ rsPc' = "get"
    /\ UNCHANGED <<configVars, ctlVars, frameVars, sinkVars, shutVars, ingestVars, customVars, callVars, mirrorVars,
                   pipeCfgVars, output_queue, feat_queue, res_frame_queue, infVars,
                   outVars, rs_i, frames_len, steps, next_seq, push_try, evict_j,
                   dropped_feat, evicted_batch, dropped_feat_chunks>>

\* The shutdown sequence of render and its two threads.
Shutdown ==
    \/ SetQuit
    \/ RenderLoopExit
    \/ InferenceExit
    \/ RenderJoinInfer
    \/ ProcessFramesExit
    \/ ProcessFramesClose
    \/ RenderJoinProcess

\* --------------------------------------------------------- initial states
\* Configurations of the ingest queue alone.
ConfigInit ==
    /\ fps \in FpsValues
    /\ audio_overflow_mode \in {"block", "drop"}
    /\ \E tenths \in QueueTenthsValues :
         max_audio_queue_chunks = QueueCapacity(audio_overflow_mode, fps, tenths)

\* The ingest configuration the pipeline runs with: musetalk's default
\* reliable mode (block) at 4 chunks per second and a 0.1 s backlog setting.
PipeIngestConfig ==
    /\ fps = 4
    /\ audio_overflow_mode = "block"
    /\ max_audio_queue_chunks = QueueCapacity("block", 4, 1)

IngestInit ==
    /\ queue = <<>>
    /\ putPc = "idle"
    /\ pending = 0
    /\ dropped_now = 0
    /\ qsize_seen = 0
    /\ put_outcome = "none"
    /\ dropped_audio_chunks = 0
    /\ pushed = 0
    /\ delivered = <<>>
    /\ last_got = [id |-> 0, type |-> 1]

CustomInit ==
    /\ curr_state = 0
    /\ custom_audio_index = [t \in CustomTypes |-> 0]
    /\ custom_calls = 0
    /\ flush_calls = 0

MirrorInit ==
    /\ m_size = 1
    /\ m_index = 0
    /\ m_res = 0
    /\ m_res_base = 0

\* LiveProcessManager.__init__
LiveInit ==
    live_manager = [process |-> 0, session_id |-> 0, pid |-> 0, alive |-> {},
                    started |-> 0, monitor |-> <<>>, start_calls |-> 0,
                    start_result |-> "none"]

\* JobRunner.__init__ and start() with an empty jobs table.
JobInit ==
    job_runner = [status |-> [j \in 1..MaxJobs |-> "none"],
                  retry_count |-> [j \in 1..MaxJobs |-> 0],
                  cancel_requested |-> [j \in 1..MaxJobs |-> FALSE],
                  q |-> <<>>, created |-> 0,
                  workPc |-> "get", work_job |-> 0, work_row |-> "none",
                  work_flag |-> FALSE,
                  cancelPc |-> "idle", cancel_id |-> 0, cancel_calls |-> 0,
                  cancelled_queued |-> {}]

\* `if len(self._queue) >= 500` in _append_task
QueueLimit == 500
\* `max_retries = 3` in _handle_dispatch_error
DispatchMaxRetries == 3

\* A SpeakTask: source, priority, interrupt, sequence, and of its meta the
\* segment_index, the number of pending_segments and the retries.
NoTask == [source |-> "none", priority |-> 0, interrupt |-> FALSE,
           segment_index |-> 0, pending |-> 0, retries |-> 0, sequence |-> 0]
\* _build_segmented_task: the first segment of a text of `segments` segments
\* (sequence 0 until _append_task numbers it).
SegmentedTask(source, priority, interrupt, segments) ==
    [source |-> source, priority |-> priority, interrupt |-> interrupt,
     segment_index |-> 1, pending |-> segments - 1, retries |-> 0, sequence |-> 0]
NoPick == [task |-> NoTask, speaking |-> FALSE, model |-> "none", guard |-> FALSE]

\* _restore_pending_replies: the queue after n one-segment replies were
\* restored with interrupt=True and the default priority.
RestoredQueue(n) ==
    [i \in 1..n |-> [SegmentedTask("reply", 80, TRUE, 1) EXCEPT !.sequence = i - 1]]

\* SpeakerDispatcher.__init__ and start() with n replies restored and
\* LT_SPEAKER_PREFETCH_WHILE_SPEAKING one of modes.
DispInit(n, modes) ==
    \E mode \in modes :
        speaker_dispatcher = [queue |-> RestoredQueue(n), sequence |-> n,
                              prefetch_mode |-> mode, guard_active |-> FALSE,
                              pc |-> "pick", task |-> NoTask, enqueues |-> 0,
                              playlist_built |-> 0, dispatches |-> 0,
                              last_pick |-> NoPick]

\* The control API after its start-up.
ControlInit == LiveInit /\ JobInit /\ DispInit(0, {"auto"})

\* process_frames before its loop: both frame caches None; custom_index as
\* __loadcustom leaves it.
FramesInit(transition) ==
    /\ enable_transition = transition
    /\ last_speaking_frame = NoFrame
    /\ last_silent_frame = NoFrame
    /\ combine_frame = NoFrame
    /\ custom_index = [t \in CustomTypes |-> 0]

\* Pipeline configurations tried.
BatchSizes == {1, 2}
FeatQueueSizes == {1, 2}
Lengths == {2}

PipeConfigs ==
    /\ batch_size \in BatchSizes
    /\ stride_left_size = 1
    /\ stride_right_size = 1
    /\ feat_queue_maxsize \in FeatQueueSizes
    /\ batch_size * feat_queue_maxsize <= 2
    /\ feat_overflow_mode \in {"block", "drop"}
    /\ length \in Lengths
    /\ use_realtime_audio \in BOOLEAN

PipeConfigFixed ==
    /\ batch_size = 1
    /\ stride_left_size = 1
    /\ stride_right_size = 1
    /\ feat_queue_maxsize = 2
    /\ feat_overflow_mode = "block"
    /\ length = 2
    /\ use_realtime_audio = TRUE

\* The pipeline after MuseReal.__init__: asr.warm_up() read l + r silence
\* chunks (the queue is empty, curr_state is 0), put them on output_queue and
\* took the first l back off.
PipeStateInit ==
    /\ output_queue = [i \in 1..stride_right_size |->
                          [seq |-> stride_left_size + i, type |-> 1]]
    /\ feat_queue = <<>>
    /\ res_frame_queue = <<>>
    /\ rsPc = "get"
    /\ rs_i = 0
    /\ frames_len = stride_left_size + stride_right_size
    /\ steps = 0
    /\ next_seq = stride_left_size + stride_right_size + 1
    /\ push_try = 0
    /\ evict_j = 0
    /\ dropped_feat = 0
    /\ evicted_batch = 0
    /\ dropped_feat_chunks = 0
    /\ infPc = "get_feat"
    /\ whisper_chunks = 0
    /\ audio_frames = <<>>
    /\ is_all_silence = TRUE
    /\ index = 0
    /\ emit_i = 0
    /\ recon = "none"
    /\ batches_done = 0
    /\ failed_index = -1
    /\ last_emit = NoEmit
    /\ prev_emit = NoEmit
    /\ pfPc = LoopTop
    /\ speaking = FALSE
    /\ voice_age = "none"
    /\ last_render = -1
    /\ quit_event = FALSE
    /\ infer_quit_event = FALSE
    /\ process_quit_event = FALSE
    /\ renderPc = "run"
    /\ sink_closed = FALSE
    /\ asr_err_count = 0
    /\ fallback_sleep = 0
    /\ realtime_audio_queue = <<>>
    /\ emitted = <<>>
    /\ vircam = "none"
    /\ audio_tmp = <<>>

\* opt.transport; the play_audio thread exists with the virtual camera only.
TransportInit(t) ==
    /\ transport = t
    /\ playPc = IF t = "virtualcam" THEN "run" ELSE "none"

\* ------------------------------------------------------------ the pipeline
Init ==
    /\ PipeIngestConfig /\ IngestInit /\ CustomInit /\ MirrorInit
    /\ PipeConfigs /\ PipeStateInit /\ TransportInit("webrtc") /\ FramesInit(TRUE) /\ ControlInit

\* The producer, the pacing thread, the synthesis worker and the output loop.
Next ==
    \/ PutAudioFrameCall
    \/ RunStep(MaxChunks)
    \/ Inference
    \/ ProcessFrames

Spec == Init /\ [][Next]_vars

\* The same threads with the control plane switching custom states.
CustomNext ==
    \/ PutAudioFrameCall
    \/ RunStep(MaxControlChunks)
    \/ Inference
    \/ ProcessFrames
    \/ SetCustomState

SpecCustom == Init /\ [][CustomNext]_vars

\* The same threads with the control plane flushing.
FlushNext ==
    \/ PutAudioFrameCall
    \/ RunStep(MaxControlChunks)
    \/ Inference
    \/ ProcessFrames
    \/ FlushTalk

SpecFlush == Init /\ [][FlushNext]_vars

\* The same threads with the control plane flushing twice in a row.
FlushTwiceNext ==
    \/ PutAudioFrameCall
    \/ RunStep(MaxControlChunks)
    \/ Inference
    \/ ProcessFrames
    \/ FlushTalkTwice

SpecFlushTwice == Init /\ [][FlushTwiceNext]_vars

\* The producer and the pacing thread alone: nothing consumes the feature queue.
NoConsumerNext ==
    \/ PutAudioFrameCall
    \/ RunStep(MaxFeatChunks)

SpecNoConsumer == Init /\ [][NoConsumerNext]_vars

\* The same with the pacing thread running on: render calls run_step again
\* and again, and every timed put inside it comes back.
SpecNoConsumerFair ==
    /\ Init
    /\ [][NoConsumerNext]_vars
    /\ WF_vars(RunStep(MaxFeatChunks))

\* render from start to return: the three loops check their events.
ShutdownNext ==
    \/ PutAudioFrameCall
    \/ RenderRunStep(MaxShutChunks)
    \/ InferenceLoop
    \/ ProcessFramesLoop
    \/ Shutdown

SpecShutdown == Init /\ [][ShutdownNext]_vars

\* The same with the control plane flushing, every thread scheduled again and
\* again.
ShutdownFlushNext ==
    \/ ShutdownNext
    \/ FlushTalk

SpecShutdownFlush ==
    /\ Init
    /\ [][ShutdownFlushNext]_vars
    /\ WF_vars(RenderRunStep(MaxShutChunks))
    /\ WF_vars(InferenceLoop)
    /\ WF_vars(ProcessFramesLoop)
    /\ WF_vars(RenderLoopExit)
    /\ WF_vars(InferenceExit)
    /\ WF_vars(RenderJoinInfer)
    /\ WF_vars(ProcessFramesExit)
    /\ WF_vars(ProcessFramesClose)
    /\ WF_vars(RenderJoinProcess)

\* ---------------------------------------------------------- empty assets
\* len(input_latent_list_cycle) as load_avatar may return it: torch.load of
\* latents.pt gives whatever list was saved, an empty one included.
LoadedLengths == {0, 2}

\* MuseReal.__init__ takes the avatar as it is; nothing looks at its length.
StartupSpecInit ==
    /\ PipeIngestConfig /\ IngestInit /\ CustomInit /\ MirrorInit
    /\ batch_size \in BatchSizes
    /\ stride_left_size = 1
    /\ stride_right_size = 1
    /\ feat_queue_maxsize \in FeatQueueSizes
    /\ batch_size * feat_queue_maxsize <= 2
    /\ feat_overflow_mode \in {"block", "drop"}
    /\ length \in LoadedLengths
    /\ use_realtime_audio = TRUE
    /\ PipeStateInit /\ TransportInit("webrtc") /\ FramesInit(TRUE) /\ ControlInit

StartupNext ==
    \/ PutAudioFrameCall
    \/ RunStep(MaxControlChunks)
    \/ Inference
    \/ InfEmitRaised
    \/ ProcessFrames

SpecStartup == StartupSpecInit /\ [][StartupNext]_vars

\* ------------------------------------------------- the virtual camera
TransportSpecInit ==
    /\ PipeIngestConfig /\ IngestInit /\ CustomInit /\ MirrorInit
    /\ PipeConfigs /\ PipeStateInit /\ TransportInit("virtualcam") /\ FramesInit(TRUE) /\ ControlInit

\* The pipeline with the virtual camera as transport: frames go to the
\* camera, audio through audio_tmp to the play_audio thread, and either may
\* fail.
TransportNext ==
    \/ PutAudioFrameCall
    \/ RunStep(MaxSinkChunks)
    \/ Inference
    \/ ProcessFrames
    \/ PfGetFailed
    \/ PlayAudio

SpecTransport == TransportSpecInit /\ [][TransportNext]_vars

\* ---------------------------------------------------- frame selection
\* One result per batch, with and without the realtime bridge and with
\* LT_ENABLE_TRANSITION on and off.
FramesSpecInit ==
    /\ PipeIngestConfig /\ IngestInit /\ CustomInit /\ MirrorInit
    /\ batch_size = 1
    /\ stride_left_size = 1
    /\ stride_right_size = 1
    /\ feat_queue_maxsize = 1
    /\ feat_overflow_mode \in {"block", "drop"}
    /\ length \in Lengths
    /\ use_realtime_audio \in BOOLEAN
    /\ PipeStateInit /\ TransportInit("webrtc")
    /\ \E transition \in BOOLEAN : FramesInit(transition)
    /\ ControlInit

\* The pipeline with failing paste_back_frame calls.
FramesNext ==
    \/ PutAudioFrameCall
    \/ RunStep(MaxFrameChunks)
    \/ Inference
    \/ ProcessFrames
    \/ PfGetFailed

SpecFrames == FramesSpecInit /\ [][FramesNext]_vars

\* ------------------------------------------------------ the pacing loop
\* opt.fps values the pacing loop is run with.
PacingFps == {4, 50}

PacingSpecInit ==
    /\ fps \in PacingFps
    /\ audio_overflow_mode = "block"
    /\ max_audio_queue_chunks = QueueCapacity("block", fps, 1)
    /\ IngestInit /\ CustomInit /\ MirrorInit
    /\ PipeConfigs /\ PipeStateInit /\ TransportInit("webrtc") /\ FramesInit(TRUE) /\ ControlInit

\* The producer and render's pacing loop, with run_step raising now and then,
\* up to the moment the loop is left.
PacingNext ==
    \/ PutAudioFrameCall
    \/ RenderRunStep(MaxFeatChunks)
    \/ RunStepRaised
    \/ SetQuit
    \/ RenderLoopExit

SpecPacing == PacingSpecInit /\ [][PacingNext]_vars

\* ----------------------------------------------------- the ingest queue
\* One producer and one consumer on the ingest queue alone.
IngestSpecInit ==
    /\ ConfigInit /\ IngestInit /\ CustomInit /\ MirrorInit
    /\ PipeConfigFixed /\ PipeStateInit /\ TransportInit("webrtc") /\ FramesInit(TRUE) /\ ControlInit

IngestNext ==
    \/ PutAudioFrame(MaxPush)
    \/ GetAudioFrame

SpecIngest == IngestSpecInit /\ [][IngestNext]_vars

\* Consumer progress: get_audio_frame is called again and again, and the
\* blocked producer's put is retried.
SpecIngestFair ==
    /\ IngestSpecInit
    /\ [][IngestNext]_vars
    /\ WF_vars(GetAudioFrame)
    /\ WF_vars(PutBlockOk)

\* The ingest queue with a consumer that never runs while the producer is
\* inside put_audio_frame: get_audio_frame is called between two pushes only.
GetBetweenCalls ==
    /\ putPc = "idle"
    /\ GetAudioFrame

PutAloneNext ==
    \/ PutAudioFrame(MaxPush)
    \/ GetBetweenCalls

SpecPutAlone == IngestSpecInit /\ [][PutAloneNext]_vars

\* The ingest queue with the control plane switching custom states.
GetNext ==
    \/ PutAudioFrame(MaxPush)
    \/ GetAudioFrame
    \/ SetCustomState

SpecGet == IngestSpecInit /\ [][GetNext]_vars

\* ------------------------------------------------------ the mirror functions
MirrorSpecInit ==
    /\ PipeIngestConfig /\ IngestInit /\ CustomInit /\ MirrorInit
    /\ PipeConfigFixed /\ PipeStateInit /\ TransportInit("webrtc") /\ FramesInit(TRUE) /\ ControlInit

MirrorNext == MirrorCall

SpecMirror == MirrorSpecInit /\ [][MirrorNext]_vars

\* ======================================================================
\* The control API
\* ======================================================================
\* The avatar process as the control API's specifications start it.
AvatarInit ==
    /\ PipeIngestConfig /\ IngestInit /\ CustomInit /\ MirrorInit
    /\ PipeConfigFixed /\ PipeStateInit /\ TransportInit("webrtc")
    /\ FramesInit(TRUE)

\* ------------------------------------------------- LiveProcessManager
\* is_running(): self._process is not None and self._process.poll() is None
IsRunning ==
    live_manager.process # 0 /\ live_manager.process \in live_manager.alive

\* (a monitor that clears the record whatever session it belongs to)
MonitorOwnsAnyRecord(session_id) == TRUE
\* `if self._session_id == session_id:` in _monitor_exit
MonitorOwnsRecord(session_id) == live_manager.session_id = session_id

\* start(): the whole body runs under self._lock.  With a process running it
\* raises RuntimeError; otherwise Popen starts a process (or raises, and
\* nothing was assigned yet), the record is written and the monitor thread
\* of the new process starts.
LiveStart ==
    /\ live_manager.start_calls < MaxStartCalls
    /\ IF IsRunning
       THEN live_manager' = [live_manager EXCEPT !.start_calls = @ + 1,
                                                 !.start_result = "raised"]
       ELSE \E popen_ok \in BOOLEAN :
              IF popen_ok /\ live_manager.started < MaxStarts
              THEN LET proc == live_manager.started + 1
                   IN  live_manager' =
                           [live_manager EXCEPT !.start_calls = @ + 1,
                                                !.started = proc,
                                                !.alive = @ \cup {proc},
                                                !.process = proc,
                                                !.session_id = proc,
                                                !.pid = proc,
                                                !.monitor = Append(@, "wait"),
                                                !.start_result = "started"]
              ELSE live_manager' = [live_manager EXCEPT !.start_calls = @ + 1,
                                                        !.start_result = "raised"]
    /\ UNCHANGED <<avatarVars, job_runner, speaker_dispatcher>>

\* A live process ends: by itself, or terminated by stop(), which leaves the
\* record to the monitor.
LiveProcessExits ==
    /\ \E proc \in live_manager.alive :
        live_manager' = [live_manager EXCEPT !.alive = @ \ {proc}]
    /\ UNCHANGED <<avatarVars, job_runner, speaker_dispatcher>>

\* _monitor_exit: proc.wait() returns once the process has ended.
MonitorWaitReturns ==
    /\ \E proc \in 1..live_manager.started :
        /\ live_manager.monitor[proc] = "wait"
        /\ proc \notin live_manager.alive
        /\ live_manager' = [live_manager EXCEPT !.monitor[proc] = "exited"]
    /\ UNCHANGED <<avatarVars, job_runner, speaker_dispatcher>>

\* _monitor_exit under the lock: the record is cleared if it is still this
\* monitor's session.
MonitorClear ==
    /\ \E proc \in 1..live_manager.started :
        /\ live_manager.monitor[proc] = "exited"
        /\ live_manager' =
               IF MonitorOwnsRecord(proc)
               THEN [live_manager EXCEPT !.monitor[proc] = "done",
                                         !.process = 0, !.pid = 0]
               ELSE [live_manager EXCEPT !.monitor[proc] = "done"]
    /\ UNCHANGED <<avatarVars, job_runner, speaker_dispatcher>>

LiveSpecInit == AvatarInit /\ ControlInit

\* ------------------------------------------------------------- JobRunner
\* create_job: INSERT with status queued, a fresh RuntimeState, _q.put.
CreateJob ==
    /\ job_runner.created < MaxJobs
    /\ LET job_id == job_runner.created + 1
       IN  job_runner' = [job_runner EXCEPT !.created = job_id,
                                            !.status[job_id] = "queued",
                                            !.cancel_requested[job_id] = FALSE,
                                            !.q = Append(@, job_id)]
    /\ UNCHANGED <<avatarVars, live_manager, speaker_dispatcher>>

\* _work_loop: job_id = self._q.get()
WorkGet ==
    /\ job_runner.workPc = "get"
    /\ job_runner.q # <<>>
    /\ job_runner' = [job_runner EXCEPT !.work_job = Head(job_runner.q),
                                        !.q = Tail(@),
                                        !.workPc = "read"]
    /\ UNCHANGED <<avatarVars, live_manager, speaker_dispatcher>>

\* _run_job goes on unless the row it read says cancelled.
RunsJob(status) == status # "cancelled"

\* _run_job: the SELECT and the check of the status it returned.
WorkRead ==
    /\ job_runner.workPc = "read"
    /\ LET status == job_runner.status[job_runner.work_job]
       IN  job_runner' = [job_runner EXCEPT
                            !.work_row = status,
                            !.workPc = IF RunsJob(status) THEN "mark" ELSE "get"]
    /\ UNCHANGED <<avatarVars, live_manager, speaker_dispatcher>>

\* _run_job: UPDATE jobs SET status = 'running' WHERE id = ?
WorkMarkRunning ==
    /\ job_runner.workPc = "mark"
    /\ job_runner' = [job_runner EXCEPT !.status[job_runner.work_job] = "running",
                                        !.workPc = "exec"]
    /\ UNCHANGED <<avatarVars, live_manager, speaker_dispatcher>>

\* _run_job: the handler of the job type runs and returns or raises.
WorkExecute ==
    /\ job_runner.workPc = "exec"
    /\ \E outcome \in {"returned", "raised"} :
        job_runner' = [job_runner EXCEPT
                         !.workPc = IF outcome = "returned" THEN "check" ELSE "fail"]
    /\ UNCHANGED <<avatarVars, live_manager, speaker_dispatcher>>

\* _run_job: self._is_cancelled(job_id) after the handler returned.
WorkCheck ==
    /\ job_runner.workPc = "check"
    /\ job_runner' = [job_runner EXCEPT
                        !.work_flag = job_runner.cancel_requested[job_runner.work_job],
                        !.workPc = "finish"]
    /\ UNCHANGED <<avatarVars, live_manager, speaker_dispatcher>>

\* _run_job: the UPDATE to cancelled or to succeeded.
WorkFinish ==
    /\ job_runner.workPc = "finish"
    /\ job_runner' = [job_runner EXCEPT
                        !.status[job_runner.work_job] =
                            IF job_runner.work_flag THEN "cancelled" ELSE "succeeded",
                        !.workPc = "get"]
    /\ UNCHANGED <<avatarVars, live_manager, speaker_dispatcher>>

\* _handle_job_failure up to its sleep: a cancelled row ends it; with retries
\* left and no cancel request the row goes back to queued; else failed.
WorkFail ==
    /\ job_runner.workPc = "fail"
    /\ LET job_id == job_runner.work_job
       IN  job_runner' =
             IF job_runner.status[job_id] = "cancelled"
             THEN [job_runner EXCEPT !.workPc = "get"]
             ELSE IF /\ job_runner.retry_count[job_id] < JobMaxRetries
                     /\ ~job_runner.cancel_requested[job_id]
                  THEN [job_runner EXCEPT !.status[job_id] = "queued",
                                          !.retry_count[job_id] = @ + 1,
                                          !.workPc = "requeue"]
                  ELSE [job_runner EXCEPT !.status[job_id] = "failed",
                                          !.workPc = "get"]
    /\ UNCHANGED <<avatarVars, live_manager, speaker_dispatcher>>

\* _handle_job_failure after the backoff sleep: back on the queue unless a
\* cancel was requested meanwhile.
WorkRequeue ==
    /\ job_runner.workPc = "requeue"
    /\ job_runner' = [job_runner EXCEPT
                        !.q = IF job_runner.cancel_requested[job_runner.work_job]
                              THEN @ ELSE Append(@, job_runner.work_job),
                        !.workPc = "get"]
    /\ UNCHANGED <<avatarVars, live_manager, speaker_dispatcher>>

\* cancel_job: the SELECT; a finished or cancelled job returns at once.
CancelRead ==
    /\ job_runner.cancelPc = "idle"
    /\ job_runner.cancel_calls < MaxCancels
    /\ \E job_id \in 1..job_runner.created :
        job_runner' = [job_runner EXCEPT
                         !.cancel_calls = @ + 1,
                         !.cancel_id = job_id,
                         !.cancelPc =
                             IF job_runner.status[job_id] \in
                                    {"succeeded", "failed", "cancelled"}
                             THEN "idle" ELSE "flag"]
    /\ UNCHANGED <<avatarVars, live_manager, speaker_dispatcher>>

\* cancel_job under the lock: cancel_requested = True (and the running
\* subprocess, if any, is terminated).
CancelFlag ==
    /\ job_runner.cancelPc = "flag"
    /\ job_runner' = [job_runner EXCEPT
                        !.cancel_requested[job_runner.cancel_id] = TRUE,
                        !.cancelPc = "update"]
    /\ UNCHANGED <<avatarVars, live_manager, speaker_dispatcher>>

\* cancel_job: UPDATE jobs SET status = CASE WHEN status='queued' THEN
\* 'cancelled' ELSE status END
CancelUpdate ==
    /\ job_runner.cancelPc = "update"
    /\ LET job_id == job_runner.cancel_id
       IN  job_runner' =
             IF job_runner.status[job_id] = "queued"
             THEN [job_runner EXCEPT !.status[job_id] = "cancelled",
                                     !.cancelled_queued = @ \cup {job_id},
                                     !.cancelPc = "idle"]
             ELSE [job_runner EXCEPT !.cancelPc = "idle"]
    /\ UNCHANGED <<avatarVars, live_manager, speaker_dispatcher>>

JobSpecInit == AvatarInit /\ ControlInit

JobNext ==
    \/ CreateJob
    \/ WorkGet
    \/ WorkRead
    \/ WorkMarkRunning
    \/ WorkExecute
    \/ WorkCheck
    \/ WorkFinish
    \/ WorkFail
    \/ WorkRequeue
    \/ CancelRead
    \/ CancelFlag
    \/ CancelUpdate

SpecJobs == JobSpecInit /\ [][JobNext]_vars

\* ------------------------------------------------------ SpeakerDispatcher
\* The queue without its entry at idx.
RemoveAt(q, idx) == SubSeq(q, 1, idx - 1) \o SubSeq(q, idx + 1, Len(q))
\* list.insert(idx - 1, x) for a 1-based idx.
InsertAt(q, idx, x) == SubSeq(q, 1, idx - 1) \o <<x>> \o SubSeq(q, idx, Len(q))

\* _append_task's drop_idx: the first entry with the least (priority, sequence).
DropIdx(q) ==
    CHOOSE i \in 1..Len(q) :
        \A j \in 1..Len(q) :
            \/ q[i].priority < q[j].priority
            \/ q[i].priority = q[j].priority /\ q[i].sequence < q[j].sequence
            \/ q[i].priority = q[j].priority /\ q[i].sequence = q[j].sequence /\ i <= j

\* _append_task's insert_idx: before the first queued task of lower priority.
InsertIdx(q, task) ==
    IF \E i \in 1..Len(q) : task.priority > q[i].priority
    THEN CHOOSE i \in 1..Len(q) :
            /\ task.priority > q[i].priority
            /\ \A j \in 1..(i - 1) : ~(task.priority > q[j].priority)
    ELSE Len(q) + 1

\* _append_task on the queue q with the next sequence number seq.
AppendTask(q, task, seq) ==
    LET numbered == [task EXCEPT !.sequence = seq]
        room == IF Len(q) >= QueueLimit THEN RemoveAt(q, DropIdx(q)) ELSE q
    IN  InsertAt(room, InsertIdx(room, numbered), numbered)

\* _handle_dispatch_error: self._queue.insert(0, task)
Requeue(q, task) == <<task>> \o q

\* _allow_prefetch_while_speaking
AllowPrefetchWhileSpeaking(model_name) ==
    CASE speaker_dispatcher.prefetch_mode = "on" -> TRUE
      [] speaker_dispatcher.prefetch_mode = "off" -> FALSE
      [] OTHER -> model_name # "musetalk"

\* (every queued task taken for a follow-up segment)
IsQueuedTask(task) == task.segment_index >= 1
\* _is_followup_segment
IsFollowupSegment(task) == task.segment_index > 1

\* The index of the first queued task with interrupt set, or 0.
FirstInterrupt(q) ==
    IF \E i \in 1..Len(q) : q[i].interrupt
    THEN CHOOSE i \in 1..Len(q) :
            q[i].interrupt /\ \A j \in 1..(i - 1) : ~q[j].interrupt
    ELSE 0

\* The index of the first queued follow-up segment without interrupt, or 0.
FirstFollowup(q) ==
    IF \E i \in 1..Len(q) : ~q[i].interrupt /\ IsFollowupSegment(q[i])
    THEN CHOOSE i \in 1..Len(q) :
            /\ ~q[i].interrupt /\ IsFollowupSegment(q[i])
            /\ \A j \in 1..(i - 1) : ~(~q[j].interrupt /\ IsFollowupSegment(q[j]))
    ELSE 0

\* _pick_next_task under the lock: the index of the queued task it takes, or
\* 0 when it takes none.
PickIndex(q, is_speaking, model_name) ==
    IF q = <<>> THEN 0
    ELSE IF is_speaking
         THEN IF FirstInterrupt(q) # 0 THEN FirstInterrupt(q)
              ELSE IF /\ AllowPrefetchWhileSpeaking(model_name)
                      /\ ~speaker_dispatcher.guard_active
                   THEN FirstFollowup(q)
                   ELSE 0
         ELSE IF speaker_dispatcher.guard_active THEN FirstInterrupt(q) ELSE 1

\* enqueue_reply / enqueue_manual: the first segment of the text is appended.
EnqueueText ==
    /\ speaker_dispatcher.enqueues < MaxEnqueues
    /\ \E source \in {"reply", "manual"}, interrupt \in BOOLEAN, segments \in 1..MaxSegments :
        speaker_dispatcher' =
            [speaker_dispatcher EXCEPT
                !.enqueues = @ + 1,
                !.queue = AppendTask(@, SegmentedTask(source,
                                            IF source = "reply" THEN 80 ELSE 60,
                                            interrupt, segments),
                                     speaker_dispatcher.sequence),
                !.sequence = @ + 1]
    /\ UNCHANGED <<avatarVars, live_manager, job_runner>>

\* One turn of _loop with the live process running that picks a task:
\* _is_speaking answers, _pick_next_task takes a queued task, or, with the
\* queue empty and the avatar silent, _build_playlist_task builds one.  (A
\* turn that picks nothing sleeps and changes nothing.)
PickNextTask ==
    /\ speaker_dispatcher.pc = "pick"
    /\ IsRunning
    /\ speaker_dispatcher.dispatches < MaxDispatches
    /\ \E is_speaking \in BOOLEAN, model_name \in {"musetalk", "wav2lip"} :
        LET idx == PickIndex(speaker_dispatcher.queue, is_speaking, model_name)
            Picked(task) == [task |-> task, speaking |-> is_speaking,
                             model |-> model_name,
                             guard |-> speaker_dispatcher.guard_active]
        IN  \/ /\ idx # 0
               /\ speaker_dispatcher' =
                      [speaker_dispatcher EXCEPT
                          !.task = speaker_dispatcher.queue[idx],
                          !.queue = RemoveAt(@, idx),
                          !.last_pick = Picked(speaker_dispatcher.queue[idx]),
                          !.pc = "send",
                          !.dispatches = @ + 1]
            \/ /\ speaker_dispatcher.queue = <<>>
               /\ ~is_speaking
               /\ speaker_dispatcher.playlist_built < MaxPlaylistTasks
               /\ \E segments \in 1..MaxSegments :
                   speaker_dispatcher' =
                      [speaker_dispatcher EXCEPT
                          !.playlist_built = @ + 1,
                          !.task = SegmentedTask("playlist", 10, FALSE, segments),
                          !.last_pick = Picked(SegmentedTask("playlist", 10, FALSE,
                                                             segments)),
                          !.pc = "send",
                          !.dispatches = @ + 1]
    /\ UNCHANGED <<avatarVars, live_manager, job_runner>>

\* _dispatch_task: the text is sent, the next segment of the text, if any, is
\* appended with interrupt=False, and a task without interrupt moves
\* _next_dispatch_ts ahead by its guard time (which can be zero).
DispatchTask ==
    /\ speaker_dispatcher.pc = "send"
    /\ LET task == speaker_dispatcher.task
           scheduled ==
               IF task.pending > 0
               THEN [speaker_dispatcher EXCEPT
                        !.queue = AppendTask(@, [task EXCEPT !.interrupt = FALSE,
                                                            !.segment_index = @ + 1,
                                                            !.pending = @ - 1,
                                                            !.retries = 0],
                                             speaker_dispatcher.sequence),
                        !.sequence = @ + 1]
               ELSE speaker_dispatcher
       IN  \E guard_positive \in IF task.interrupt THEN {FALSE} ELSE BOOLEAN :
              speaker_dispatcher' =
                  [scheduled EXCEPT !.guard_active = @ \/ guard_positive,
                                    !.task = NoTask,
                                    !.pc = "pick"]
    /\ UNCHANGED <<avatarVars, live_manager, job_runner>>

\* _send_text raises and _handle_dispatch_error runs: with retries left the
\* task goes back to the head of the queue, else it is given up.
HandleDispatchError ==
    /\ speaker_dispatcher.pc = "send"
    /\ LET task == speaker_dispatcher.task
       IN  speaker_dispatcher' =
              [speaker_dispatcher EXCEPT
                  !.queue = IF task.retries < DispatchMaxRetries
                            THEN Requeue(@, [task EXCEPT !.retries = @ + 1])
                            ELSE @,
                  !.task = NoTask,
                  !.pc = "pick"]
    /\ UNCHANGED <<avatarVars, live_manager, job_runner>>

\* Time passes _next_dispatch_ts.
GuardExpires ==
    /\ speaker_dispatcher.guard_active
    /\ speaker_dispatcher' = [speaker_dispatcher EXCEPT !.guard_active = FALSE]
    /\ UNCHANGED <<avatarVars, live_manager, job_runner>>

\* The live process manager after one start() that succeeded.
LiveRunningInit ==
    live_manager = [process |-> 1, session_id |-> 1, pid |-> 1, alive |-> {1},
                    started |-> 1, monitor |-> <<"wait">>, start_calls |-> 1,
                    start_result |-> "started"]

\* The dispatcher on air, started with no pending reply or with a full
\* restore of pending replies.
DispSpecInit ==
    /\ AvatarInit /\ LiveRunningInit /\ JobInit
    /\ \E n \in {0, QueueLimit} : DispInit(n, {"auto", "on", "off"})

DispNext ==
    \/ EnqueueText
    \/ PickNextTask
    \/ DispatchTask
    \/ HandleDispatchError
    \/ GuardExpires

SpecDispatch == DispSpecInit /\ [][DispNext]_vars

\* The dispatcher on air, started with no pending reply or one.
PickSpecInit ==
    /\ AvatarInit /\ LiveRunningInit /\ JobInit
    /\ \E n \in {0, 1} : DispInit(n, {"auto", "on", "off"})

SpecPick == PickSpecInit /\ [][DispNext]_vars

LiveNext ==
    \/ LiveStart
    \/ LiveProcessExits
    \/ MonitorWaitReturns
    \/ MonitorClear

SpecLive == LiveSpecInit /\ [][LiveNext]_vars

\* ======================================================================
\* Properties of the ingest queue
\* ======================================================================
\* The chunk the producer holds inside put_audio_frame, as a sequence.
InHand == IF pending # 0 THEN <<pending>> ELSE <<>>

\* C1: under the block policy with no flush, every chunk pushed so far is,
\* exactly once and in push order, either already returned by
\* get_audio_frame, or queued, or still held by the blocked producer; and
\* while the consumer keeps calling get_audio_frame every pushed chunk is
\* eventually returned.
C1_BlockZeroLoss ==
    /\ [](audio_overflow_mode = "block" =>
            delivered \o queue \o InHand = [i \in 1..pushed |-> i])
    /\ \A k \in 1..MaxPush :
         (audio_overflow_mode = "block" /\ pushed >= k) ~> (Len(delivered) >= k)

\* The producer is blocked on a full queue while earlier chunks were delivered.
C1_Witness ==
    /\ audio_overflow_mode = "block"
    /\ putPc = "block_put"
    /\ QFull(queue, max_audio_queue_chunks)
    /\ delivered # <<>>

\* C2: under the drop policy the ingest queue never holds more chunks than
\* max_audio_queue_chunks, whatever the interleaving of producer and consumer.
C2_DropOccupancyBounded ==
    audio_overflow_mode = "drop" => Len(queue) <= max_audio_queue_chunks

\* A put that found the queue full twice and dropped the incoming chunk.
C2_Witness ==
    /\ audio_overflow_mode = "drop"
    /\ put_outcome = "dropped"
    /\ Len(queue) = max_audio_queue_chunks

\* Queued chunks evicted by the current (or last) put_audio_frame call:
\* dropped_now without the incoming chunk.
EvictedNow == dropped_now - (IF put_outcome = "dropped" THEN 1 ELSE 0)

\* C3: under the drop policy one put_audio_frame call evicts at most
\* capacity - keep_watermark queued chunks, keep_watermark = max(1, fps // 2).
C3_EvictionBounded ==
    audio_overflow_mode = "drop" =>
        EvictedNow <= max_audio_queue_chunks - Max(1, fps \div 2)

\* A call that evicted a queued chunk and then enqueued the incoming one.
C3_Witness ==
    /\ audio_overflow_mode = "drop"
    /\ put_outcome = "queued"
    /\ dropped_now >= 1

\* ======================================================================
\* Properties of the mirror functions
\* ======================================================================
\* The closed form of the ping-pong traversal.
PingPong(len, i) ==
    IF (i \div len) % 2 = 0
    THEN i % len
    ELSE len - 1 - (i % len)

\* C4: for every length >= 1 and index >= 0, mirror(index) is in [0, length),
\* has period 2*length, and is index mod length on even turns and
\* length-1-(index mod length) on odd turns; for both mirror functions.
C4_MirrorRangePeriod ==
    /\ m_res \in 0..(m_size - 1)
    /\ m_res = PingPong(m_size, m_index)
    /\ mirror_index_inference(m_size, m_index + 2 * m_size) = m_res
    /\ m_res_base \in 0..(m_size - 1)
    /\ m_res_base = PingPong(m_size, m_index)
    /\ mirror_index(m_size, m_index + 2 * m_size) = m_res_base

\* An index on a downward (odd) turn of a cycle longer than one.
C4_Witness ==
    /\ m_size > 1
    /\ (m_index \div m_size) % 2 = 1
    /\ m_res = m_size - 1 - (m_index % m_size)
    /\ m_res_base = m_res

\* ======================================================================
\* Properties of the synthesis worker
\* ======================================================================
\* C5 as stated: the frame_index carried by consecutive RenderResults grows
\* by exactly one from each result to the next.
C5_CarriedIndexIncreasing ==
    prev_emit # NoEmit => last_emit.idx = prev_emit.idx + 1

\* C5 (amended): the logical index the worker counts is strictly increasing
\* and gapless over the results it emits, each carried frame_index is the
\* mirror image of that logical index, and between batches the logical index
\* is batch_size times the number of batches emitted, in both branches.
C5_LogicalIndexGapless ==
    /\ last_emit = NoEmit => index = 0
    /\ last_emit # NoEmit =>
          /\ last_emit.n = index - 1
          /\ last_emit.idx = PingPong(length, last_emit.n)
    /\ prev_emit # NoEmit => last_emit.n = prev_emit.n + 1
    /\ infPc = "emit" => index = batch_size * batches_done + emit_i
    /\ infPc # "emit" => index = batch_size * batches_done

\* The carried index turned round (it did not increase) after a synthesized
\* batch that followed at least one earlier batch.
C5_Witness ==
    /\ prev_emit # NoEmit
    /\ last_emit.idx <= prev_emit.idx
    /\ recon = "frame"
    /\ batches_done >= 2

\* C6: an exception from the synthesis call never terminates the worker.
C6_WorkerSurvivesSynthesisError == infPc # "dead"

\* C7: after a batch whose synthesis call raised, the logical index has
\* advanced by batch_size past the first index of the failed batch.
C7_IndexAdvancesPastFailedBatch ==
    failed_index # -1 => index = failed_index + batch_size

\* The batch in the worker's hands has been classified.
Classified == infPc \in {"synth", "synth_retry", "emit"}
AllSilenceBranch == infPc = "emit" /\ recon = "none"
Types(frames) == {frames[i].type : i \in 1..Len(frames)}

\* C8 as stated: a batch takes the all-silence branch if and only if every
\* one of its chunks has kind silence (type 1).
C8_SilenceIffAllSilenceKind ==
    Classified => (AllSilenceBranch <=> Types(audio_frames) \subseteq {1})

\* C8 (amended): a batch of 2*batch_size chunks takes the all-silence branch
\* (no synthesis call, pixels None) if and only if none of its chunks is
\* normal speech (type 0); silence and custom-state chunks alike leave it
\* silent, and one speech chunk sends the whole batch to the synthesis call.
C8_SilenceIffNoSpeech ==
    Classified =>
        /\ Len(audio_frames) = 2 * batch_size
        /\ AllSilenceBranch <=> (0 \notin Types(audio_frames))
        /\ infPc = "emit" /\ recon = "frame" => 0 \in Types(audio_frames)
        /\ \A i \in 1..Len(res_frame_queue) :
              res_frame_queue[i].pixels = "none" =>
                  \A k \in 1..2 : res_frame_queue[i].audio[k].type # 0

\* A batch holding a custom-state chunk and no speech skipped synthesis.
C8_Witness ==
    /\ AllSilenceBranch
    /\ \E t \in Types(audio_frames) : t > 1

\* C9: the audio entries the worker reads for feature batch s are those at the
\* fixed warm-up offset: entry i of batch s is the
\* (stride_left_size + 2*batch_size*(s-1) + i)-th audio entry ever produced.
C9_PairingFixed ==
    whisper_chunks # 0 =>
        \A i \in 1..Len(audio_frames) :
            audio_frames[i].seq =
                stride_left_size + 2 * batch_size * (whisper_chunks - 1) + i

C12_NeverSpeakingOnPushedSilence == speaking = FALSE

\* C12 (amended): as long as nothing has been pushed, so that the pipeline runs
\* on the silence chunks get_audio_frame makes up on timeout (type 1),
\* is_speaking() is false and no voiced pair has ever been seen; speaking
\* requires a pushed chunk, which is tagged type 0 whatever its samples.
C12_NeverSpeakingOnGeneratedSilence ==
    /\ pushed = 0 => (speaking = FALSE /\ voice_age = "none")
    /\ speaking => pushed >= 1

\* Results made of generated silence alone were rendered, speaking stayed false.
C12_Witness ==
    /\ pushed = 0
    /\ last_render >= 1
    /\ speaking = FALSE

\* The output loop renders the head of the result queue in this step.
Rendered ==
    /\ pfPc = "get" /\ pfPc' = LoopTop
    /\ res_frame_queue # <<>>
    /\ res_frame_queue' = Tail(res_frame_queue)
\* A pair with a chunk of normal speech.
PairHasSpeech(audio) == audio[1].type = 0 \/ audio[2].type = 0

\* C13: speaking is false until the first result with a non-silence pair is
\* rendered, becomes true at that result, and stays true at every result
\* rendered within the hangover after the last non-silence pair, raw silence
\* included.
C13_SpeakingWithHangover ==
    /\ [](voice_age = "none" => speaking = FALSE)
    /\ [][Rendered =>
            LET r == Head(res_frame_queue)
            IN  /\ PairHasSpeech(r.audio) => speaking' = TRUE /\ voice_age' = "fresh"
                /\ ~PairHasSpeech(r.audio) /\ voice_age = "fresh" => speaking' = TRUE]_vars

\* The last batch was all silence, its result has been rendered within the
\* hangover, and speaking is still true.
C13_Witness ==
    /\ batch_size = 1
    /\ infPc = "get_feat" /\ recon = "none"
    /\ res_frame_queue = <<>>
    /\ last_render >= 1 /\ last_render = index - 1
    /\ voice_age = "fresh"
    /\ speaking = TRUE

\* ======================================================================
\* Properties of the feature queue
\* ======================================================================
\* The `n` most recent of the batches 1..pushed_batches, oldest first.
MostRecent(pushed_batches, n) == [i \in 1..n |-> pushed_batches - n + i]

\* C14: with the drop policy and no consumer, after every run_step the feature
\* queue holds the most recent min(pushed, capacity) batches in push order
\* (capacity 2 and five batches: batches 4 and 5).
C14_DropKeepsMostRecent ==
    (feat_overflow_mode = "drop" /\ rsPc = "get" /\ rs_i = 0) =>
        feat_queue = MostRecent(steps, Min(steps, feat_queue_maxsize))

\* Capacity 2, drop policy, five batches pushed with no consumer.
C14_Witness ==
    /\ feat_overflow_mode = "drop" /\ feat_queue_maxsize = 2
    /\ rsPc = "get" /\ rs_i = 0
    /\ steps = 5
    /\ feat_queue = <<4, 5>>

\* ======================================================================
\* Properties of get_audio_frame
\* ======================================================================
\* A step in which the consumer's get_audio_frame call returned something new:
\* a queued chunk, a chunk of the custom clip, or a changed result.
GetStep ==
    \/ delivered' # delivered
    \/ custom_audio_index' # custom_audio_index /\ custom_calls' = custom_calls
    \/ last_got' # last_got

\* C15: get_audio_frame returns the queued chunk (type 0) when there is one;
\* on an empty queue it returns the next chunk of the active custom clip tagged
\* with the state id when a custom state is active, and a silence chunk
\* (type 1) otherwise.
C15_GetAudioFrameKinds ==
    [][GetStep =>
          last_got' = IF queue # <<>> THEN [id |-> Head(queue), type |-> 0]
                      ELSE IF curr_state > 1 THEN [id |-> 0, type |-> curr_state]
                      ELSE [id |-> 0, type |-> 1]]_vars

\* ======================================================================
\* Properties of the result queue
\* ======================================================================
\* A result leaves / enters the result queue in this step.
Removed == Len(res_frame_queue') < Len(res_frame_queue)
Produced == Len(res_frame_queue') > Len(res_frame_queue)
\* The logical indices of the queued results, oldest first.
QueuedIndices == [i \in 1..Len(res_frame_queue) |-> res_frame_queue[i].n]
\* Every slot is produced once: the queued results are distinct slots not yet
\* rendered, and a new result is the slot the worker is at.
ProducedOnce ==
    /\ [](\A i \in 1..Len(res_frame_queue) :
              /\ last_render < QueuedIndices[i] /\ QueuedIndices[i] < index
              /\ \A j \in 1..Len(res_frame_queue) :
                    i # j => QueuedIndices[i] # QueuedIndices[j])
    /\ [][Produced =>
            /\ Len(res_frame_queue') = Len(res_frame_queue) + 1
            /\ \E k \in 1..Len(res_frame_queue') : res_frame_queue'[k].n = index
            /\ index' = index + 1]_vars

C17_RenderedInProductionOrder ==
    /\ [](\A i \in 1..Len(res_frame_queue) - 1 :
              QueuedIndices[i] < QueuedIndices[i + 1])
    /\ [][Rendered => /\ last_render' = Head(res_frame_queue).n
                      /\ last_render' > last_render]_vars

\* A result was rendered and later results are queued behind it, the next one first.
C17_Witness ==
    /\ last_render >= 0
    /\ Len(res_frame_queue) >= 2
    /\ Head(res_frame_queue).n = last_render + 1

\* ======================================================================
\* Properties of shutdown
\* ======================================================================
\* C18: once quit_event is set, every loop sees its flag and ends, and render
\* returns; no thread stays blocked on a queue.
C18_CancellationCompletes == quit_event ~> (renderPc = "done")

BatchesInFlight ==
    Len(feat_queue) + (IF infPc = "get_audio" THEN 1 ELSE 0)

\* C20: every inter-stage queue holds at most its configured number of
\* entries, and between two run_steps the audio-pair queue holds at most the
\* warm-up offset plus 2*batch_size entries for each feature batch queued or
\* in flight.
C20_QueuesBounded ==
    /\ Len(queue) <= max_audio_queue_chunks
    /\ Len(feat_queue) <= feat_queue_maxsize
    /\ Len(res_frame_queue) <= 2 * batch_size
    /\ (rsPc = "get" /\ rs_i = 0) =>
          Len(output_queue) <= stride_right_size + 2 * batch_size * BatchesInFlight

\* ======================================================================
\* Properties of error handling
\* ======================================================================
\* C21: an exception raised by run_step does not end the pacing loop: the
\* error is counted, the fallback sleep is at most 0.05 s, and the loop is at
\* the start of its next iteration; the loop is left only with the
\* cancellation flag set, and once the flag is set no new iteration starts.
C21_PacingLoopSurvives ==
    /\ [][asr_err_count' # asr_err_count =>
            /\ asr_err_count' = asr_err_count + 1
            /\ fallback_sleep' <= 50 * fps
            /\ renderPc' = "run" /\ rsPc' = "get" /\ rs_i' = 0]_vars
    /\ [](renderPc # "run" => quit_event)
    /\ [][(renderPc = "run" /\ quit_event /\ rsPc = "get" /\ rs_i = 0) =>
            steps' = steps]_vars

\* After an exception (with a fallback sleep shorter than 0.05 s) the loop ran
\* another run_step up to its push.
C21_Witness ==
    /\ asr_err_count >= 1
    /\ fallback_sleep < 50 * fps
    /\ renderPc = "run"
    /\ rsPc = "push"

\* C22: a failure of the virtual camera (open or send) or of the audio stream
\* (write or reopen) ends neither the output loop nor the play_audio thread.
C22_TransportFailureSurvived == pfPc # "dead" /\ playPc # "dead"

\* C23: with an asset cycle of length zero the pipeline never starts: the
\* pacing loop runs no run_step, the worker takes no batch, and no thread
\* comes to evaluate mirror(index) with length 0.
C23_ZeroLengthNeverRuns ==
    length = 0 =>
        /\ steps = 0 /\ rsPc = "get" /\ rs_i = 0
        /\ infPc = "get_feat" /\ whisper_chunks = 0

\* ======================================================================
\* Properties of custom states
\* ======================================================================
\* C24: the read of get_audio_stream that takes a clip's audio index to or
\* past the end of the clip sets curr_state to 1; from then on, until
\* set_custom_state is called again, curr_state stays 1, the index stays where
\* it is, and a get_audio_frame call on an empty queue returns a silence chunk
\* (type 1), never a chunk of the clip.
C24_CustomStateEndsByItself ==
    /\ [][\A t \in CustomTypes :
            (/\ custom_audio_index'[t] > custom_audio_index[t]
             /\ custom_audio_index'[t] >= ClipSamples(t)) => curr_state' = 1]_vars
    /\ [][(curr_state = 1 /\ custom_calls' = custom_calls) =>
            /\ curr_state' = 1
            /\ custom_audio_index' = custom_audio_index
            /\ (queue = <<>> /\ last_got' # last_got) =>
                  last_got' = [id |-> 0, type |-> 1]]_vars

\* A clip was started and played to its end, and the queue is empty: the
\* state is back at 1.
C24_Witness ==
    /\ custom_calls >= 1
    /\ \E t \in CustomTypes : custom_audio_index[t] >= ClipSamples(t)
    /\ curr_state = 1
    /\ queue = <<>>
    /\ last_got = [id |-> 0, type |-> 1]

\* ======================================================================
\* Properties of audio emission
\* ======================================================================
\* The chunk numbers of `later` continue those of `earlier` upwards: no number
\* twice, none out of order.
Continues(earlier, later) ==
    /\ \A i \in 1..Len(later) - 1 : later[i] < later[i + 1]
    /\ (earlier # <<>> /\ later # <<>>) => earlier[Len(earlier)] < later[1]

\* C25: with a realtime audio bridge the output loop emits audio only from
\* the bridge queue (all of it, at the top of an iteration) and never from the
\* pair of a result it consumes; without a bridge it emits exactly the pair of
\* each result it consumes and the bridge queue stays empty.  Either way no
\* chunk is emitted twice.
C25_AudioEmissionExclusive ==
    /\ [][emitted' # emitted =>
            /\ Continues(emitted, emitted')
            /\ IF use_realtime_audio
               THEN /\ pfPc = "bridge"
                    /\ emitted' = Seqs(realtime_audio_queue)
                    /\ realtime_audio_queue' = <<>>
                    /\ res_frame_queue' = res_frame_queue
               ELSE /\ Rendered
                    /\ emitted' = Seqs(Head(res_frame_queue).audio)]_vars
    /\ [][(Rendered /\ use_realtime_audio) => emitted' = emitted]_vars
    /\ [](~use_realtime_audio => realtime_audio_queue = <<>>)

\* With a bridge: audio was emitted from the bridge, a result was consumed
\* after it, and the worker has put further audio on the bridge.
C25_Witness ==
    /\ use_realtime_audio
    /\ emitted # <<>>
    /\ last_render >= 0
    /\ realtime_audio_queue # <<>>

\* C26: without a realtime audio bridge, every result the output loop
\* consumes has both chunks of its pair emitted, the first before the second,
\* in the iteration that consumes it.
C26_PairEmittedForEveryResult ==
    [][(Rendered /\ ~use_realtime_audio) =>
          emitted' = Seqs(Head(res_frame_queue).audio)]_vars

\* ======================================================================
\* Properties of the configuration
\* ======================================================================
\* C27: whatever the fps, the overflow policy and the backlog setting, the
\* ingest queue has room for at least two chunks.
C27_CapacityAtLeastTwo == max_audio_queue_chunks >= 2

\* ======================================================================
\* Properties of the traversal
\* ======================================================================
\* C28: for every length >= 1 and index >= 0, mirror(index + 1) differs from
\* mirror(index) by at most 1, and at a wraparound (index + 1 a multiple of
\* length) the two are equal; for both mirror functions.
C28_MirrorNeverJumps ==
    LET next_res == mirror_index_inference(m_size, m_index + 1)
        next_res_base == mirror_index(m_size, m_index + 1)
    IN  /\ next_res - m_res \in {-1, 0, 1}
        /\ next_res_base - m_res_base \in {-1, 0, 1}
        /\ (m_index + 1) % m_size = 0 =>
              /\ next_res = m_res
              /\ next_res_base = m_res_base

\* The last index of an upward turn of a cycle of three or more: the value
\* stays at length - 1 across the wraparound.
C28_Witness ==
    /\ m_size >= 3
    /\ (m_index + 1) % m_size = 0
    /\ m_res = m_size - 1
    /\ mirror_index_inference(m_size, m_index + 1) = m_size - 1

\* ======================================================================
\* Properties of the feature push
\* ======================================================================
\* C29: under the block policy the push always returns: it fails at most six
\* puts (the first and five retries); it returns with the batch queued as soon
\* as a put finds room, and after the sixth failure it returns with the batch
\* dropped, the feature queue untouched and the drop counter one higher.
C29_BlockPushAlwaysReturns ==
    /\ [](feat_overflow_mode = "block" => push_try <= FeatBlockRetries)
    /\ [][(feat_overflow_mode = "block" /\ rsPc = "push" /\ rsPc' = "get") =>
            IF QFull(feat_queue, feat_queue_maxsize)
            THEN /\ push_try = FeatBlockRetries
                 /\ feat_queue' = feat_queue
                 /\ dropped_feat_chunks' = dropped_feat_chunks + 1
            ELSE /\ feat_queue' = QPut(feat_queue, steps)
                 /\ dropped_feat_chunks' = dropped_feat_chunks]_vars
    /\ (feat_overflow_mode = "block" /\ rsPc = "push") ~> (rsPc = "get")

\* A push found the queue full six times and returned; the pacing loop is
\* back at the top with the batch counted as dropped.
C29_Witness ==
    /\ feat_overflow_mode = "block"
    /\ rsPc = "get" /\ rs_i = 0
    /\ dropped_feat_chunks >= 1
    /\ QFull(feat_queue, feat_queue_maxsize)

\* The audio entries paired with feature batch b: those the worker reads for
\* it at the fixed warm-up offset.
PairedSeqs(b) ==
    {stride_left_size + 2 * batch_size * (b - 1) + i : i \in 1..(2 * batch_size)}

\* C30: under the drop policy one push evicts at most three batches, each
\* from the head of the feature queue; after each evicted batch it removes
\* from the head of the audio-pair queue the 2*batch_size entries paired with
\* that batch, all of them; and the new batch is dropped only by the last put
\* finding the queue still full.
C30_DropEvictsCorrelated ==
    /\ [](feat_overflow_mode = "drop" => dropped_feat <= FeatDropRounds)
    /\ [][dropped_feat' = dropped_feat + 1 => feat_queue' = Tail(feat_queue)]_vars
    /\ [][(rsPc = "evict_audio" /\ evict_j' = evict_j + 1) =>
            /\ output_queue' = Tail(output_queue)
            /\ Head(output_queue).seq \in PairedSeqs(evicted_batch)]_vars
    /\ [][(rsPc = "evict_audio" /\ rsPc' = "evict_put") =>
            evict_j' = 2 * batch_size]_vars
    /\ [][(feat_overflow_mode = "drop"
            /\ dropped_feat_chunks' = dropped_feat_chunks + 1) =>
            /\ rsPc = "final_put"
            /\ QFull(feat_queue, feat_queue_maxsize)]_vars

\* ======================================================================
\* Properties of one put_audio_frame call
\* ======================================================================
\* The queued chunks are in push order.
InPushOrder(q) == \A i \in 1..(Len(q) - 1) : q[i] < q[i + 1]

\* C31: under the drop policy with no consumer running during the call,
\* put_audio_frame trims the queue to at most keep_recent chunks before its
\* first put, every trim removes the oldest chunk, the incoming chunk is
\* dropped only by a put that finds the trimmed queue full, and otherwise it
\* goes to the tail and the queue holds at most keep_recent + 1 chunks, in
\* push order.
C31_DropTrimsThenInserts ==
    /\ [](audio_overflow_mode = "drop" =>
            /\ putPc \in {"put1", "trim2_check", "trim2_get", "put2"} =>
                  Len(queue) <= keep_recent
            /\ InPushOrder(queue))
    /\ [][(putPc \in {"trim1_get", "trim2_get"} /\ queue' # queue) =>
            queue' = Tail(queue)]_vars
    /\ [][(audio_overflow_mode = "drop" /\ putPc # "idle" /\ putPc' = "idle") =>
            IF QFull(queue, max_audio_queue_chunks)
            THEN /\ putPc = "put2"
                 /\ queue' = queue
                 /\ put_outcome' = "dropped"
            ELSE /\ queue' = Append(queue, pending)
                 /\ put_outcome' = "queued"
                 /\ Len(queue') <= keep_recent + 1]_vars

\* A call that trimmed the oldest chunk and then queued the incoming one.
C31_Witness ==
    /\ audio_overflow_mode = "drop"
    /\ putPc = "idle"
    /\ put_outcome = "queued"
    /\ dropped_now >= 1
    /\ Len(queue) = keep_recent + 1
    /\ queue[Len(queue)] = pushed

\* ======================================================================
\* Properties of frame selection
\* ======================================================================
\* The output loop takes the result at the head of the result queue and
\* reaches the frame selection with it.
Consumes == pfPc = "get" /\ res_frame_queue # <<>> /\ res_frame_queue' = Tail(res_frame_queue)

\* C32: a consumed result whose pair is raw silence while the output is
\* speaking (inside the hangover) is shown as the last speaking frame if
\* there is one and as the background frame at the result's index otherwise;
\* the frame never holds that result's own pixels.
C32_HoldShowsLastSpeakingFrame ==
    [][(Consumes /\ RawSilence(Head(res_frame_queue).audio) /\ voice_age = "fresh") =>
          /\ combine_frame' = IF last_speaking_frame # NoFrame
                              THEN last_speaking_frame
                              ELSE BackgroundFrame(Head(res_frame_queue).idx)
          /\ combine_frame'.n # Head(res_frame_queue).n]_vars

\* A raw-silence result was consumed while speaking and shown as the frame of
\* an earlier speaking result.
C32_Witness ==
    /\ speaking
    /\ last_speaking_frame # NoFrame
    /\ combine_frame = last_speaking_frame
    /\ last_render > combine_frame.n

\* C33: the last-speaking-frame cache changes only when a result that is not
\* raw silence is rendered, and then holds the frame made from that result;
\* the last-silent-frame cache changes only for a raw-silence result consumed
\* while not speaking; a raw-silence result consumed while speaking changes
\* neither.
C33_CachesChangeOnOwnBranch ==
    /\ [][last_speaking_frame' # last_speaking_frame =>
            /\ Consumes
            /\ ~RawSilence(Head(res_frame_queue).audio)
            /\ last_speaking_frame' = combine_frame'
            /\ combine_frame'.n = Head(res_frame_queue).n]_vars
    /\ [][last_silent_frame' # last_silent_frame =>
            /\ Consumes
            /\ RawSilence(Head(res_frame_queue).audio)
            /\ voice_age # "fresh"
            /\ last_silent_frame' = combine_frame']_vars
    /\ [][(Consumes /\ RawSilence(Head(res_frame_queue).audio) /\ voice_age = "fresh") =>
            UNCHANGED <<last_speaking_frame, last_silent_frame>>]_vars

\* Both caches are written and the last iteration held the speaking frame.
C33_Witness ==
    /\ last_speaking_frame # NoFrame
    /\ last_silent_frame # NoFrame
    /\ combine_frame = last_speaking_frame
    /\ last_render > combine_frame.n
    /\ speaking

C35_RealBranchHasPixels ==
    \A i \in 1..Len(res_frame_queue) :
        ~RawSilence(res_frame_queue[i].audio) => res_frame_queue[i].pixels # "none"

\* After discarded results the output loop is about to take a result that
\* goes to the real-synthesis branch.
C35_Witness ==
    /\ pfPc = "get"
    /\ res_frame_queue # <<>>
    /\ ~RawSilence(Head(res_frame_queue).audio)
    /\ Head(res_frame_queue).pixels # "none"
    /\ Head(res_frame_queue).n > last_render + 1

\* ======================================================================
\* Properties of the drop accounting
\* ======================================================================
\* C36: under the drop policy, between calls, the chunks pushed are the
\* chunks get_audio_frame returned from the queue plus the chunks queued plus
\* the drop counter; and the counter never decreases.
C36_ChunkConservation ==
    /\ [](audio_overflow_mode = "drop" /\ putPc = "idle" =>
            pushed = Len(delivered) + Len(queue) + dropped_audio_chunks)
    /\ [][dropped_audio_chunks' >= dropped_audio_chunks]_vars

\* ======================================================================
\* Properties of the control API
\* ======================================================================
\* C37: at most one live process is alive at any time, the one on record if
\* any; a start() made while the recorded process is running raises and
\* leaves the recorded process, session and pid as they were.
C37_AtMostOneLiveProcess ==
    /\ [](/\ Cardinality(live_manager.alive) <= 1
          /\ live_manager.alive \subseteq {live_manager.process})
    /\ [][(live_manager'.start_calls # live_manager.start_calls /\ IsRunning) =>
            /\ live_manager'.start_result = "raised"
            /\ live_manager'.process = live_manager.process
            /\ live_manager'.session_id = live_manager.session_id
            /\ live_manager'.pid = live_manager.pid
            /\ live_manager'.alive = live_manager.alive]_vars

\* start() was refused while the second process was running and the first
\* process's monitor had not finished yet.
C37_Witness ==
    /\ live_manager.start_result = "raised"
    /\ live_manager.process = 2
    /\ 2 \in live_manager.alive
    /\ live_manager.monitor[1] # "done"

\* C39: a job that cancel_job turned from queued to cancelled stays
\* cancelled: the worker never runs it, and never sets it to running or to
\* succeeded.
C39_CancelledQueuedJobNeverRuns ==
    \A job_id \in job_runner.cancelled_queued :
        /\ job_runner.status[job_id] = "cancelled"
        /\ ~(/\ job_runner.work_job = job_id
             /\ job_runner.workPc \in {"exec", "check", "finish"})

\* C38: the dispatcher's pending task queue never holds more than 500
\* tasks, whatever enqueues, follow-up segments and failure requeues happen.
C38_QueueWithinLimit == Len(speaker_dispatcher.queue) <= QueueLimit

\* C40: a task picked while the avatar reports speaking has interrupt set,
\* or is a follow-up segment picked with prefetch allowed and the guard time
\* passed; it is never a first segment without interrupt; and a playlist
\* task picked then is a follow-up segment of its script, never a newly built
\* one.
C40_SpeakingPicksOnlyAllowed ==
    (speaker_dispatcher.last_pick.speaking /\ speaker_dispatcher.last_pick.task # NoTask) =>
        /\ \/ speaker_dispatcher.last_pick.task.interrupt
           \/ /\ speaker_dispatcher.last_pick.task.segment_index > 1
              /\ AllowPrefetchWhileSpeaking(speaker_dispatcher.last_pick.model)
              /\ ~speaker_dispatcher.last_pick.guard
        /\ ~(speaker_dispatcher.last_pick.task.segment_index = 1 /\ ~speaker_dispatcher.last_pick.task.interrupt)
        /\ (speaker_dispatcher.last_pick.task.source = "playlist" => speaker_dispatcher.last_pick.task.segment_index > 1)

\* A follow-up segment without interrupt was picked while speaking.
C40_Witness ==
    /\ speaker_dispatcher.last_pick.speaking
    /\ ~speaker_dispatcher.last_pick.task.interrupt
    /\ speaker_dispatcher.last_pick.task.segment_index > 1

\* C40 as stated: in addition, no task of a playlist is ever picked while
\* speaking.
C40_NoPlaylistTaskWhileSpeaking ==
    (speaker_dispatcher.last_pick.speaking /\ speaker_dispatcher.last_pick.task # NoTask) =>
        /\ \/ speaker_dispatcher.last_pick.task.interrupt
           \/ /\ speaker_dispatcher.last_pick.task.segment_index > 1
              /\ AllowPrefetchWhileSpeaking(speaker_dispatcher.last_pick.model)
              /\ ~speaker_dispatcher.last_pick.guard
        /\ ~(speaker_dispatcher.last_pick.task.segment_index = 1 /\ ~speaker_dispatcher.last_pick.task.interrupt)
        /\ speaker_dispatcher.last_pick.task.source # "playlist"

=============================================================================
